---- MODULE Spec2Model ----
(***************************************************************************)
(* Model of the jupyter-agent kernel client (src/mcp/jclient.py).          *)
(*                                                                         *)
(* The client holds one aiohttp session and one WebSocket to a kernel.     *)
(* execute_code() makes sure the WebSocket is bound to the requested       *)
(* kernel, sends an execute_request with a fresh msg_id and folds the      *)
(* inbound messages into {status, outputs, error} until the execute_reply  *)
(* for that msg_id arrives or asyncio.timeout() expires.                   *)
(*                                                                         *)
(* Text that the code only copies is a TLA+ string; text the code rewrites *)
(* (evalue, traceback) is a sequence of one-character strings, "ESC"       *)
(* standing for the character \x1b.  Python's None is None (<<>>) for an   *)
(* optional value and NoId (0) for a missing msg_id.                       *)
(***************************************************************************)
EXTENDS Integers, Sequences, FiniteSets, TLC

\* ------------------------------------------------------------------ bounds
\* Number of execute_request submissions; also the range of msg_ids.
MaxCalls == 2
\* Number of inbound messages one receive loop consumes.
MaxLog == 3
\* Number of those messages that answer another request or none.
MaxDiscard == 1

\* Number of cells of the snapshot's notebook and the diffed one together.
MaxCells == 5

\* Number of cells of the notebook the server tools write into.
MaxDoc == 2

\* The coroutines that call into the client.
Procs == {"a", "b"}
Kernels == {"k1", "k2"}
\* Values of execute_code's timeout argument.
Timeouts == {120}

\* --------------------------------------------------------- Python values
None == <<>>
Some(x) == <<x>>
NoId == 0
NoKernel == "None"
EmptyDict == [x \in {} |-> x]

\* dict.get(k, default)
Get(d, k, default) == IF k \in DOMAIN d THEN d[k] ELSE default

\* ------------------------------------------------------------ _strip_ansi
ESC == "ESC"
ParamChars == {"0", "1", "2", "3", "4", "5", "6", "7", "8", "9", ";"}
Letters ==
    {"a", "b", "c", "d", "e", "f", "g", "h", "i", "j", "k", "l", "m",
     "n", "o", "p", "q", "r", "s", "t", "u", "v", "w", "x", "y", "z",
     "A", "B", "C", "D", "E", "F", "G", "H", "I", "J", "K", "L", "M",
     "N", "O", "P", "Q", "R", "S", "T", "U", "V", "W", "X", "Y", "Z"}

RECURSIVE ParamEnd(_, _)
\* First index >= j of s that is not matched by [0-9;]* (Len(s)+1 if none).
ParamEnd(s, j) ==
    IF j <= Len(s) /\ s[j] \in ParamChars THEN ParamEnd(s, j + 1) ELSE j

\* Length of the match of \x1b\[[0-9;]*[a-zA-Z] at index i of s, 0 if none.
AnsiMatchLen(s, i) ==
    IF s[i] = ESC /\ i + 1 <= Len(s) /\ s[i + 1] = "["
    THEN LET j == ParamEnd(s, i + 2)
         IN  IF j <= Len(s) /\ s[j] \in Letters THEN j - i + 1 ELSE 0
    ELSE 0

RECURSIVE StripFrom(_, _)
StripFrom(s, i) ==
    IF i > Len(s) THEN <<>>
    ELSE LET n == AnsiMatchLen(s, i)
         IN  IF n > 0 THEN StripFrom(s, i + n)
             ELSE <<s[i]>> \o StripFrom(s, i + 1)

\* re.sub(r"\x1b\[[0-9;]*[a-zA-Z]", "", text)
StripAnsi(text) == StripFrom(text, 1)

RECURSIVE JoinLines(_)
\* "\n".join(lines)
JoinLines(lines) ==
    IF lines = <<>> THEN <<>>
    ELSE IF Len(lines) = 1 THEN lines[1]
    ELSE lines[1] \o <<"\n">> \o JoinLines(Tail(lines))


\* ------------------------------------------- execute_code: the loop body
\* The Error Detail built from the content of an error message or of an
\* execute_reply.
ErrorDetail(content) ==
    [ename |-> Get(content, "ename", ""),
     evalue |-> StripAnsi(Get(content, "evalue", <<>>)),
     traceback |-> StripAnsi(JoinLines(Get(content, "traceback", <<>>)))]

\* The Error Detail of an expired deadline.
TimeoutDetail(timeout) ==
    [ename |-> "TimeoutError",
     evalue |-> <<"Execution timed out after ", ToString(timeout), "s">>,
     traceback |-> <<>>]

\* Discarded, were only messages without a reference skipped.
DiscardedOnlyUnreferenced(msg, msg_id) ==
    Get(Get(msg, "parent_header", EmptyDict), "msg_id", NoId) = NoId

\* if parent.get("msg_id") != msg_id: continue
Discarded(msg, msg_id) ==
    Get(Get(msg, "parent_header", EmptyDict), "msg_id", NoId) # msg_id

\* st is the record [outputs, error, status, brk] of the loop's locals; brk
\* says that the loop has been left by break.
\* OnStream, were the record inserted at the front.
OnStreamInFront(st, content) ==
    [st EXCEPT !.outputs =
        <<[output_type |-> "stream",
           name |-> Get(content, "name", "stdout"),
           text |-> Get(content, "text", "")]>> \o @]

OnStream(st, content) ==
    [st EXCEPT !.outputs =
        Append(@, [output_type |-> "stream",
                   name |-> Get(content, "name", "stdout"),
                   text |-> Get(content, "text", "")])]

OnDisplayData(st, content) ==
    [st EXCEPT !.outputs =
        Append(@, [output_type |-> "display_data",
                   data |-> Get(content, "data", EmptyDict),
                   metadata |-> Get(content, "metadata", EmptyDict)])]

\* OnExecuteResult, were the record assigned instead of appended.
OnExecuteResultAssigns(st, content) ==
    [st EXCEPT !.outputs =
        <<[output_type |-> "execute_result",
           data |-> Get(content, "data", EmptyDict),
           metadata |-> Get(content, "metadata", EmptyDict),
           execution_count |-> Get(content, "execution_count", 0)]>>]

OnExecuteResult(st, content) ==
    [st EXCEPT !.outputs =
        Append(@, [output_type |-> "execute_result",
                   data |-> Get(content, "data", EmptyDict),
                   metadata |-> Get(content, "metadata", EmptyDict),
                   execution_count |-> Get(content, "execution_count", 0)])]

OnError(st, content) ==
    LET error == ErrorDetail(content)
    IN  [st EXCEPT !.error = Some(error),
                   !.outputs =
                       Append(@, [output_type |-> "error",
                                  ename |-> error.ename,
                                  evalue |-> error.evalue,
                                  traceback |-> Get(content, "traceback", <<>>)]),
                   !.status = "error"]

\* OnExecuteReply, were the status of the reply taken as the status.
OnExecuteReplyTakesStatus(st, content) ==
    IF Get(content, "status", "") = "error" /\ st.error = None
    THEN [st EXCEPT !.error = Some(ErrorDetail(content)),
                    !.status = "error",
                    !.brk = TRUE]
    ELSE [st EXCEPT !.status = Get(content, "status", "ok"), !.brk = TRUE]

\* OnExecuteReply, were an error status always turned into the Error Detail.
OnExecuteReplyOverrides(st, content) ==
    IF Get(content, "status", "") = "error"
    THEN [st EXCEPT !.error = Some(ErrorDetail(content)),
                    !.status = "error",
                    !.brk = TRUE]
    ELSE [st EXCEPT !.brk = TRUE]

OnExecuteReply(st, content) ==
    IF Get(content, "status", "") = "error" /\ st.error = None
    THEN [st EXCEPT !.error = Some(ErrorDetail(content)),
                    !.status = "error",
                    !.brk = TRUE]
    ELSE [st EXCEPT !.brk = TRUE]

\* OnStatus, were the idle state taken for the end of the execution.
OnStatusIdleBreaks(st, content) ==
    IF Get(content, "execution_state", "") = "idle"
    THEN [st EXCEPT !.brk = TRUE]
    ELSE st

OnStatus(st, content) ==
    IF Get(content, "execution_state", "") = "idle" THEN st ELSE st

\* One iteration of the while loop on the received message msg.
LoopBody(st, msg, msg_id) ==
    IF Discarded(msg, msg_id) THEN st
    ELSE LET msg_type == Get(msg, "msg_type", "")
             content == Get(msg, "content", EmptyDict)
         IN  CASE msg_type = "stream" -> OnStream(st, content)
               [] msg_type = "display_data" -> OnDisplayData(st, content)
               [] msg_type = "execute_result" -> OnExecuteResult(st, content)
               [] msg_type = "error" -> OnError(st, content)
               [] msg_type = "execute_reply" -> OnExecuteReply(st, content)
               [] msg_type = "status" -> OnStatus(st, content)
               [] OTHER -> st

\* ------------------------------------------------------- inbound messages
\* Contents the kernel may put into a message of each kind.
StreamContents == {[name |-> "stderr", text |-> "out"]}
DisplayContents == {[data |-> ("text/plain" :> "fig"), metadata |-> EmptyDict]}
ResultContents ==
    {[data |-> ("text/plain" :> "42"), metadata |-> EmptyDict,
      execution_count |-> 7]}
ErrorContents ==
    {[ename |-> "ValueError",
      evalue |-> <<ESC, "[", "3", "1", "m", "b", "a", "d">>,
      traceback |-> << <<ESC, "[", "0", "m", "T">>, <<"v">> >>],
     [ename |-> "KeyError", evalue |-> <<"k">>, traceback |-> << <<"K">> >>]}
ReplyContents ==
    {[status |-> "ok"],
     [status |-> "error", ename |-> "ReplyError", evalue |-> <<"r">>,
      traceback |-> << <<"R">> >>]}
StatusContents == {[execution_state |-> "idle"]}

Bodies ==
    {[msg_type |-> "stream", content |-> c] : c \in StreamContents}
    \cup {[msg_type |-> "display_data", content |-> c] : c \in DisplayContents}
    \cup {[msg_type |-> "execute_result", content |-> c] : c \in ResultContents}
    \cup {[msg_type |-> "error", content |-> c] : c \in ErrorContents}
    \cup {[msg_type |-> "execute_reply", content |-> c] : c \in ReplyContents}
    \cup {[msg_type |-> "status", content |-> c] : c \in StatusContents}

\* A message whose parent_header names request i.
WithParent(b, i) ==
    [parent_header |-> [msg_id |-> i], msg_type |-> b.msg_type,
     content |-> b.content]

\* A message whose parent_header is empty (it answers no request).
WithoutParent(b) ==
    [parent_header |-> EmptyDict, msg_type |-> b.msg_type,
     content |-> b.content]

\* A request other than request id whose answers may be in the channel: the
\* request sent before it or, for the first request, one of another client
\* of the kernel.
OtherId(id) == IF id = 1 THEN 2 ELSE id - 1

\* What the answers to another request look like: one message of each kind
\* that the loop acts on, the reply and the error with the fields of a
\* failure.
OtherBodies ==
    {b \in Bodies :
        /\ b.msg_type # "status"
        /\ b.msg_type = "error" => b.content.ename = "ValueError"
        /\ b.msg_type = "execute_reply" => b.content.status = "error"}

\* What comes without a parent: output of no request, and a reply whose
\* parent_header has been lost.
UnparentedBodies ==
    {b \in Bodies :
        \/ b.msg_type = "stream"
        \/ b.msg_type = "execute_reply" /\ b.content.status = "error"}

\* Everything the channel may deliver to the call that sent request id.
Inbound(id) ==
    {WithParent(b, id) : b \in Bodies}
    \cup {WithParent(b, OtherId(id)) : b \in OtherBodies}
    \cup {WithoutParent(b) : b \in UnparentedBodies}

\* ------------------------------------------------------------------ state
VARIABLES
    session,        \* self._session: "none", "open" or "closed"
    ws,             \* self._ws: None or Some([kernel, closed])
    orphans,        \* the open WebSockets that self._ws no longer names
    ws_kernel_id,   \* self._ws_kernel_id
    nextId,         \* the next value of uuid.uuid4()
    pc,             \* where each caller stands
    kernel_id,      \* execute_code's argument kernel_id
    timeout,        \* execute_code's argument timeout
    msg_id,         \* execute_code's local msg_id
    outputs,        \* execute_code's local outputs
    error,          \* execute_code's local error
    status,         \* execute_code's local status
    log             \* the messages receive_json() has returned to the call

\* ------------------------------------------------- NotebookTracker: state
VARIABLES
    content,        \* the notebook object the caller holds (nb_content)
    other,          \* what the caller's notebook object is edited into next
    snapshot,       \* NotebookTracker._snapshot
    snapshot_hash,  \* NotebookTracker._snapshot_hash
    shared,         \* whether _snapshot is the caller's object itself
    snapshot_arg,   \* the notebook as it was passed to the last take_snapshot
    ret             \* what the last call of the tracker returned

tracker == <<content, other, snapshot, snapshot_hash, shared, snapshot_arg,
             ret>>

\* --------------------------------------------------- server tools: state
VARIABLES
    srv_client,     \* server._client is set
    srv_kernel_id,  \* server._kernel_id
    notebook_path,  \* server._notebook_path
    stored,         \* the cells of the notebook the Jupyter server stores
    result,         \* what execute_code returned to the last tool call
    writeback,      \* how writing into the notebook went after it
    reply,          \* what the last tool call gave back to its caller
    flight          \* the call of edit_and_run_cell that is under way

server == <<srv_client, srv_kernel_id, notebook_path, stored, result,
            writeback, reply, flight>>

\* ------------------------------------------- the WebSocket's queue: state
VARIABLES
    wire            \* the kernel's messages that receive_json() has yet to
                    \* return, when the calls share the open WebSocket

\* The state that the calls of execute_code run one at a time leave alone.
outside == <<tracker, server, wire>>

client == <<session, ws, orphans, ws_kernel_id>>
locals == <<kernel_id, timeout, msg_id, outputs, error, status, log>>
vars == <<session, ws, orphans, ws_kernel_id, nextId, pc, kernel_id,
          timeout, msg_id, outputs, error, status, log>>

\* self._ws and not self._ws.closed
WsOpen == ws # None /\ ~ws[1].closed

\* self._ws after close() has been called on it.
ClosedWs == IF WsOpen THEN Some([ws[1] EXCEPT !.closed = TRUE]) ELSE ws

\* The state of the JupyterClient and its WebSocket.
jclient == <<vars, wire>>

\* All the variables.
state == <<vars, wire, tracker, server>>

\* NotebookTracker.__init__
NoSnapshot ==
    /\ snapshot = None
    /\ snapshot_hash = None
    /\ shared = FALSE
    /\ snapshot_arg = None
    /\ ret = [op |-> "none"]

\* A tracker that was never called, and a caller with an empty notebook.
TrackerIdle ==
    /\ content = [cells |-> <<>>]
    /\ other = [cells |-> <<>>]
    /\ NoSnapshot

\* The globals of the server module before any tool is called.
ServerIdle ==
    /\ srv_client = FALSE
    /\ srv_kernel_id = None
    /\ notebook_path = None
    /\ stored = <<>>
    /\ result = None
    /\ writeback = "none"
    /\ reply = [tool |-> "none"]
    /\ flight = [at |-> "idle"]

\* JupyterClient.__init__; no call is in progress.
ClientInit ==
    /\ session = "none"
    /\ ws = None
    /\ orphans = <<>>
    /\ ws_kernel_id = NoKernel
    /\ nextId = 1
    /\ pc = [p \in Procs |-> "idle"]
    /\ kernel_id = [p \in Procs |-> NoKernel]
    /\ timeout = [p \in Procs |-> 0]
    /\ msg_id = [p \in Procs |-> NoId]
    /\ outputs = [p \in Procs |-> <<>>]
    /\ error = [p \in Procs |-> None]
    /\ status = [p \in Procs |-> "ok"]
    /\ log = [p \in Procs |-> <<>>]
    /\ wire = <<>>

\* The state after construction of the client, the tracker and the server.
Init == ClientInit /\ TrackerIdle /\ ServerIdle

\* No other call is in progress: the calls run one at a time.
Quiet == \A q \in Procs : pc[q] = "idle"

\* A caller enters execute_code(k, code, t).
Call(p, k, t) ==
    /\ Quiet
    /\ nextId <= MaxCalls
    /\ pc' = [pc EXCEPT ![p] = "ensure"]
    /\ kernel_id' = [kernel_id EXCEPT ![p] = k]
    /\ timeout' = [timeout EXCEPT ![p] = t]
    /\ UNCHANGED <<client, nextId, msg_id, outputs, error, status, log>>
    /\ UNCHANGED outside

\* EnsureWs, were the WebSocket held not closed before another is opened.
EnsureWsKeepsOld(p) ==
    /\ pc[p] = "ensure"
    /\ IF WsOpen /\ ws_kernel_id = kernel_id[p]
       THEN pc' = [pc EXCEPT ![p] = "send"]
       ELSE pc' = [pc EXCEPT ![p] = "connect"]
    /\ UNCHANGED <<client, nextId, locals>>
    /\ UNCHANGED outside

\* _ensure_ws up to its first await: reuse the WebSocket, or close the one
\* held, or go straight to the handshake.
EnsureWs(p) ==
    /\ pc[p] = "ensure"
    /\ IF WsOpen /\ ws_kernel_id = kernel_id[p]
       THEN /\ pc' = [pc EXCEPT ![p] = "send"]
            /\ UNCHANGED ws
       ELSE IF WsOpen
       THEN /\ ws' = ClosedWs
            /\ pc' = [pc EXCEPT ![p] = "closing"]
       ELSE /\ pc' = [pc EXCEPT ![p] = "connect"]
            /\ UNCHANGED ws
    /\ UNCHANGED <<session, orphans, ws_kernel_id, nextId, locals>>
    /\ UNCHANGED outside

\* await self._ws.close() returns.
WsClosed(p) ==
    /\ pc[p] = "closing"
    /\ pc' = [pc EXCEPT ![p] = "connect"]
    /\ UNCHANGED <<client, nextId, locals>>
    /\ UNCHANGED outside

\* _get_session() and a handshake that succeeds: the new WebSocket and its
\* kernel are recorded.
ConnectOk(p) ==
    /\ pc[p] = "connect"
    /\ session' = "open"
    /\ ws' = Some([kernel |-> kernel_id[p], closed |-> FALSE])
    /\ orphans' = IF WsOpen THEN Append(orphans, ws[1]) ELSE orphans
    /\ ws_kernel_id' = kernel_id[p]
    /\ pc' = [pc EXCEPT ![p] = "send"]
    /\ UNCHANGED <<nextId, locals>>
    /\ UNCHANGED outside

\* ConnectFail, were a failed handshake tried again inside execute_code.
ConnectFailRetries(p) ==
    /\ pc[p] = "connect"
    /\ session' = "open"
    /\ pc' = [pc EXCEPT ![p] = "ensure"]
    /\ UNCHANGED <<ws, orphans, ws_kernel_id, nextId, locals>>
    /\ UNCHANGED outside

\* _get_session() and a handshake that fails: ws_connect raises and the
\* exception leaves execute_code.
ConnectFail(p) ==
    /\ pc[p] = "connect"
    /\ session' = "open"
    /\ pc' = [pc EXCEPT ![p] = "raised"]
    /\ UNCHANGED <<ws, orphans, ws_kernel_id, nextId, locals>>
    /\ UNCHANGED outside

\* The execute_request is built with a fresh msg_id and sent; the locals of
\* the loop are initialised.
Send(p) ==
    /\ pc[p] = "send"
    /\ msg_id' = [msg_id EXCEPT ![p] = nextId]
    /\ nextId' = nextId + 1
    /\ outputs' = [outputs EXCEPT ![p] = <<>>]
    /\ error' = [error EXCEPT ![p] = None]
    /\ status' = [status EXCEPT ![p] = "ok"]
    /\ log' = [log EXCEPT ![p] = <<>>]
    /\ pc' = [pc EXCEPT ![p] = "recv"]
    /\ UNCHANGED <<client, kernel_id, timeout>>
    /\ UNCHANGED outside

\* The messages of a log that do not answer request id.
Foreign(l, id) == SelectSeq(l, LAMBDA m : Discarded(m, id))

\* receive_json() returns a message m and the loop body runs on it.
Recv(p) ==
    /\ pc[p] = "recv"
    /\ Len(log[p]) < MaxLog
    /\ \E m \in Inbound(msg_id[p]) :
        /\ Discarded(m, msg_id[p])
               => Len(Foreign(log[p], msg_id[p])) < MaxDiscard
        /\ LET st == LoopBody([outputs |-> outputs[p], error |-> error[p],
                               status |-> status[p], brk |-> FALSE],
                              m, msg_id[p])
           IN  /\ outputs' = [outputs EXCEPT ![p] = st.outputs]
               /\ error' = [error EXCEPT ![p] = st.error]
               /\ status' = [status EXCEPT ![p] = st.status]
               /\ pc' = [pc EXCEPT ![p] = IF st.brk THEN "done" ELSE "recv"]
        /\ log' = [log EXCEPT ![p] = Append(@, m)]
    /\ UNCHANGED <<client, nextId, kernel_id, timeout, msg_id>>
    /\ UNCHANGED outside

\* Expire, were the outcome of a timeout built with fresh outputs.
ExpireDropsOutputs(p) ==
    /\ pc[p] = "recv"
    /\ status' = [status EXCEPT ![p] = "timeout"]
    /\ error' = [error EXCEPT ![p] = Some(TimeoutDetail(timeout[p]))]
    /\ outputs' = [outputs EXCEPT ![p] = <<>>]
    /\ pc' = [pc EXCEPT ![p] = "done"]
    /\ UNCHANGED <<client, nextId, kernel_id, timeout, msg_id, log>>
    /\ UNCHANGED outside

\* Expire, were the TimeoutError caught inside the while loop.
ExpireInsideLoop(p) ==
    /\ pc[p] = "recv"
    /\ status[p] # "timeout"
    /\ status' = [status EXCEPT ![p] = "timeout"]
    /\ error' = [error EXCEPT ![p] = Some(TimeoutDetail(timeout[p]))]
    /\ UNCHANGED <<client, nextId, pc, kernel_id, timeout, msg_id,
                   outputs, log>>
    /\ UNCHANGED outside

\* Expire, were the WebSocket closed when the deadline expires.
ExpireClosesWs(p) ==
    /\ pc[p] = "recv"
    /\ status' = [status EXCEPT ![p] = "timeout"]
    /\ error' = [error EXCEPT ![p] = Some(TimeoutDetail(timeout[p]))]
    /\ ws' = ClosedWs
    /\ pc' = [pc EXCEPT ![p] = "done"]
    /\ UNCHANGED <<session, orphans, ws_kernel_id, nextId, kernel_id,
                   timeout, msg_id, outputs, log>>
    /\ UNCHANGED outside

\* asyncio.timeout() expires while the loop waits in receive_json():
\* the except TimeoutError branch.
Expire(p) ==
    /\ pc[p] = "recv"
    /\ status' = [status EXCEPT ![p] = "timeout"]
    /\ error' = [error EXCEPT ![p] = Some(TimeoutDetail(timeout[p]))]
    /\ pc' = [pc EXCEPT ![p] = "done"]
    /\ UNCHANGED <<client, nextId, kernel_id, timeout, msg_id,
                   outputs, log>>
    /\ UNCHANGED outside

\* The caller takes the outcome (or the exception) and is free again.
Return(p) ==
    /\ pc[p] \in {"done", "raised"}
    /\ pc' = [pc EXCEPT ![p] = "idle"]
    /\ kernel_id' = [kernel_id EXCEPT ![p] = NoKernel]
    /\ timeout' = [timeout EXCEPT ![p] = 0]
    /\ msg_id' = [msg_id EXCEPT ![p] = NoId]
    /\ outputs' = [outputs EXCEPT ![p] = <<>>]
    /\ error' = [error EXCEPT ![p] = None]
    /\ status' = [status EXCEPT ![p] = "ok"]
    /\ log' = [log EXCEPT ![p] = <<>>]
    /\ UNCHANGED <<client, nextId>>
    /\ UNCHANGED outside

\* Close, were only the HTTP session closed and the WebSocket left alone.
CloseOnlySession ==
    /\ Quiet
    /\ session' = IF session = "open" THEN "closed" ELSE session
    /\ UNCHANGED <<ws, orphans, ws_kernel_id, nextId, pc, locals>>
    /\ UNCHANGED outside

\* JupyterClient.close()
Close ==
    /\ Quiet
    /\ ws' = ClosedWs
    /\ session' = IF session = "open" THEN "closed" ELSE session
    /\ UNCHANGED <<orphans, ws_kernel_id, nextId, pc, locals>>
    /\ UNCHANGED outside

Next ==
    \/ \E p \in Procs, k \in Kernels, t \in Timeouts : Call(p, k, t)
    \/ \E p \in Procs : EnsureWs(p)
    \/ \E p \in Procs : WsClosed(p)
    \/ \E p \in Procs : ConnectOk(p)
    \/ \E p \in Procs : ConnectFail(p)
    \/ \E p \in Procs : Send(p)
    \/ \E p \in Procs : Recv(p)
    \/ \E p \in Procs : Expire(p)
    \/ \E p \in Procs : Return(p)
    \/ Close

Spec == Init /\ [][Next]_state

\* The timer of asyncio.timeout() fires: a loop that goes on waiting is
\* cancelled sooner or later.
FairSpec == Spec /\ \A p \in Procs : WF_vars(Expire(p))

\* ---------------------------------------- calls that share the WebSocket
\* Here the WebSocket is a queue: what the kernel sends in answer to a
\* request stays in it until some call's receive_json() returns it.  The
\* calls are all for kernel "k1", so that once the WebSocket is open
\* _ensure_ws returns at once and never closes or replaces it.

\* The calls that have entered execute_code and not yet sent their request.
Entering == {q \in Procs : pc[q] \in {"ensure", "closing", "connect", "send"}}

\* A caller enters execute_code for the kernel of the open WebSocket while
\* other calls may be in progress.
CallOnOpenWs(p, t) ==
    /\ pc[p] = "idle"
    /\ WsOpen
    /\ nextId + Cardinality(Entering) <= MaxCalls
    /\ pc' = [pc EXCEPT ![p] = "ensure"]
    /\ kernel_id' = [kernel_id EXCEPT ![p] = ws_kernel_id]
    /\ timeout' = [timeout EXCEPT ![p] = t]
    /\ UNCHANGED <<client, nextId, msg_id, outputs, error, status, log>>
    /\ UNCHANGED outside

\* What the kernel sends in answer to request id: the reply, with or
\* without a line of output before it.
Answers(id) ==
    LET out == CHOOSE b \in Bodies : b.msg_type = "stream"
        ack == CHOOSE b \in Bodies :
                   b.msg_type = "execute_reply" /\ b.content.status = "ok"
    IN  {<<WithParent(ack, id)>>,
         <<WithParent(out, id), WithParent(ack, id)>>}

\* Send on the shared WebSocket: the kernel runs the requests in the order
\* they arrive, so its answer to this one comes behind all it has sent.
SendShared(p) ==
    /\ pc[p] = "send"
    /\ msg_id' = [msg_id EXCEPT ![p] = nextId]
    /\ nextId' = nextId + 1
    /\ outputs' = [outputs EXCEPT ![p] = <<>>]
    /\ error' = [error EXCEPT ![p] = None]
    /\ status' = [status EXCEPT ![p] = "ok"]
    /\ log' = [log EXCEPT ![p] = <<>>]
    /\ pc' = [pc EXCEPT ![p] = "recv"]
    /\ \E answer \in Answers(nextId) : wire' = wire \o answer
    /\ UNCHANGED <<client, kernel_id, timeout, tracker, server>>

\* RecvShared, were a message for another request left in the WebSocket.
RecvSharedLeavesOthers(p) ==
    /\ pc[p] = "recv"
    /\ wire # <<>>
    /\ LET m == Head(wire)
           st == LoopBody([outputs |-> outputs[p], error |-> error[p],
                           status |-> status[p], brk |-> FALSE],
                          m, msg_id[p])
       IN  /\ outputs' = [outputs EXCEPT ![p] = st.outputs]
           /\ error' = [error EXCEPT ![p] = st.error]
           /\ status' = [status EXCEPT ![p] = st.status]
           /\ pc' = [pc EXCEPT ![p] = IF st.brk THEN "done" ELSE "recv"]
           /\ log' = [log EXCEPT ![p] = Append(@, m)]
           /\ wire' = IF Discarded(m, msg_id[p]) THEN Append(Tail(wire), m)
                                                 ELSE Tail(wire)
    /\ UNCHANGED <<client, nextId, kernel_id, timeout, msg_id, tracker,
                   server>>

\* receive_json() returns the next message of the WebSocket to the call
\* that waits for it, and the loop body runs on it.
RecvShared(p) ==
    /\ pc[p] = "recv"
    /\ wire # <<>>
    /\ LET m == Head(wire)
           st == LoopBody([outputs |-> outputs[p], error |-> error[p],
                           status |-> status[p], brk |-> FALSE],
                          m, msg_id[p])
       IN  /\ outputs' = [outputs EXCEPT ![p] = st.outputs]
           /\ error' = [error EXCEPT ![p] = st.error]
           /\ status' = [status EXCEPT ![p] = st.status]
           /\ pc' = [pc EXCEPT ![p] = IF st.brk THEN "done" ELSE "recv"]
           /\ log' = [log EXCEPT ![p] = Append(@, m)]
           /\ wire' = Tail(wire)
    /\ UNCHANGED <<client, nextId, kernel_id, timeout, msg_id, tracker,
                   server>>

ChannelNext ==
    \/ \E p \in Procs, t \in Timeouts : Call(p, "k1", t)
    \/ \E p \in Procs, t \in Timeouts : CallOnOpenWs(p, t)
    \/ \E p \in Procs : EnsureWs(p)
    \/ \E p \in Procs : ConnectOk(p)
    \/ \E p \in Procs : ConnectFail(p)
    \/ \E p \in Procs : SendShared(p)
    \/ \E p \in Procs : RecvShared(p)
    \/ \E p \in Procs : Expire(p)
    \/ \E p \in Procs : Return(p)

ChannelSpec == Init /\ [][ChannelNext]_state

\* ------------------------------------------------ calls that overlap
\* Here a call may enter execute_code while others are inside _ensure_ws or
\* wait for the kernel, which stays silent.

\* A caller enters execute_code(k, code, t) whatever the other calls do.
CallAnyTime(p, k, t) ==
    /\ pc[p] = "idle"
    /\ nextId + Cardinality(Entering) <= MaxCalls
    /\ pc' = [pc EXCEPT ![p] = "ensure"]
    /\ kernel_id' = [kernel_id EXCEPT ![p] = k]
    /\ timeout' = [timeout EXCEPT ![p] = t]
    /\ UNCHANGED <<client, nextId, msg_id, outputs, error, status, log>>
    /\ UNCHANGED outside

\* send_json() or receive_json() on a WebSocket that another call has
\* closed meanwhile raises, and the exception leaves execute_code.
WsBroken(p) ==
    /\ pc[p] \in {"send", "recv"}
    /\ ~WsOpen
    /\ pc' = [pc EXCEPT ![p] = "raised"]
    /\ UNCHANGED <<client, nextId, locals>>
    /\ UNCHANGED outside

\* The request is sent on the WebSocket held, which is open.
SendOnOpenWs(p) == WsOpen /\ Send(p)

OverlapNext ==
    \/ \E p \in Procs, k \in Kernels, t \in Timeouts : CallAnyTime(p, k, t)
    \/ \E p \in Procs : EnsureWs(p)
    \/ \E p \in Procs : WsClosed(p)
    \/ \E p \in Procs : ConnectOk(p)
    \/ \E p \in Procs : ConnectFail(p)
    \/ \E p \in Procs : SendOnOpenWs(p)
    \/ \E p \in Procs : WsBroken(p)
    \/ \E p \in Procs : Expire(p)
    \/ \E p \in Procs : Return(p)

OverlapSpec == Init /\ [][OverlapNext]_state

\* ------------------------------------------- NotebookTracker: operators
\* A notebook is [cells |-> <<cell, ...>>]; a cell is a record with the
\* fields of the JSON object, of which "id" and "cell_type" may be absent.
\* A source is Str(s) for a string and Lines(l) for a list of strings.
\* Positions are counted from 0, as enumerate() counts them.
Str(s) == [str |-> s]
Lines(l) == [list |-> l]

\* "".join(l)
RECURSIVE Concat(_)
Concat(l) == IF l = <<>> THEN "" ELSE Head(l) \o Concat(Tail(l))

\* NotebookTracker._cell_source
CellSource(cell) ==
    LET src == Get(cell, "source", Str(""))
    IN  IF "list" \in DOMAIN src THEN Concat(src.list) ELSE src.str

\* NotebookTracker._hash_notebook: the digest stands for the text it is
\* taken of, the list of {type, source, id} of the cells; two notebooks have
\* the same digest exactly when these lists are equal.
HashNotebook(nb) ==
    LET cells == Get(nb, "cells", <<>>)
    IN  [i \in 1..Len(cells) |->
            [type   |-> Get(cells[i], "cell_type", "code"),
             source |-> CellSource(cells[i]),
             id     |-> Get(cells[i], "id", "")]]

\* Key, were it c.get("id"): None for every cell without an id.
KeyWithoutPosition(c, i) ==
    IF "id" \in DOMAIN c THEN [id |-> c.id] ELSE [none |-> TRUE]

\* c.get("id", i): the id of the cell, or its position.
Key(c, i) == IF "id" \in DOMAIN c THEN [id |-> c.id] ELSE [pos |-> i]

\* A dict is the sequence of its items in insertion order.  d[k] = v keeps
\* the place of a key that is there already and replaces its value.
HasKey(d, k) == \E j \in 1..Len(d) : d[j].key = k
Lookup(d, k) == LET j == CHOOSE j \in 1..Len(d) : d[j].key = k IN d[j].val
DictPut(d, k, v) ==
    IF HasKey(d, k)
    THEN [j \in 1..Len(d) |->
             IF d[j].key = k THEN [key |-> k, val |-> v] ELSE d[j]]
    ELSE Append(d, [key |-> k, val |-> v])

\* {c.get("id", i): i for i, c in enumerate(cells)}
RECURSIVE IdsUpTo(_, _)
IdsUpTo(cells, n) ==
    IF n = 0 THEN <<>>
    ELSE DictPut(IdsUpTo(cells, n - 1), Key(cells[n], n - 1), n - 1)
CellIds(cells) == IdsUpTo(cells, Len(cells))

\* The values of the items of d, in order.
Values(d) == [j \in 1..Len(d) |-> d[j].val]

\* RemovedCells, were the removed cells numbered by their place in the list.
RemovedCellsRenumbered(snap_ids, curr_ids) ==
    LET gone == SelectSeq(snap_ids, LAMBDA it : ~HasKey(curr_ids, it.key))
    IN  [j \in 1..Len(gone) |-> j - 1]

\* The loop over snap_ids.items() that collects the removed positions.
RemovedCells(snap_ids, curr_ids) ==
    Values(SelectSeq(snap_ids, LAMBDA it : ~HasKey(curr_ids, it.key)))

\* AddedCells, were a cell added only when it lies beyond the snapshot's end.
AddedCellsBeyondEnd(snap_ids, curr_ids) ==
    Values(SelectSeq(curr_ids, LAMBDA it :
        ~HasKey(snap_ids, it.key) /\ it.val >= Len(snap_ids)))

\* The loop over curr_ids.items(): the positions appended to added.
AddedCells(snap_ids, curr_ids) ==
    Values(SelectSeq(curr_ids, LAMBDA it : ~HasKey(snap_ids, it.key)))

\* ModifiedCells, were a cell that the snapshot lacks modified as well.
ModifiedCellsCountsNew(snap_cells, curr_cells, snap_ids, curr_ids) ==
    Values(SelectSeq(curr_ids, LAMBDA it :
        \/ ~HasKey(snap_ids, it.key)
        \/ CellSource(snap_cells[Lookup(snap_ids, it.key) + 1])
               # CellSource(curr_cells[it.val + 1])))

\* ModifiedCells, were a cell that has changed its position modified too.
ModifiedCellsMoved(snap_cells, curr_cells, snap_ids, curr_ids) ==
    Values(SelectSeq(curr_ids, LAMBDA it :
        /\ HasKey(snap_ids, it.key)
        /\ \/ CellSource(snap_cells[Lookup(snap_ids, it.key) + 1])
                  # CellSource(curr_cells[it.val + 1])
           \/ Lookup(snap_ids, it.key) # it.val))

\* ModifiedCells, were the snapshot's position appended to modified.
ModifiedCellsSnapIndex(snap_cells, curr_cells, snap_ids, curr_ids) ==
    LET hit == SelectSeq(curr_ids, LAMBDA it :
            /\ HasKey(snap_ids, it.key)
            /\ CellSource(snap_cells[Lookup(snap_ids, it.key) + 1])
                   # CellSource(curr_cells[it.val + 1]))
    IN  [j \in 1..Len(hit) |-> Lookup(snap_ids, hit[j].key)]

\* The loop over curr_ids.items(): the positions appended to modified.
ModifiedCells(snap_cells, curr_cells, snap_ids, curr_ids) ==
    Values(SelectSeq(curr_ids, LAMBDA it :
        /\ HasKey(snap_ids, it.key)
        /\ CellSource(snap_cells[Lookup(snap_ids, it.key) + 1])
               # CellSource(curr_cells[it.val + 1])))

\* One clause of the summary: f"{len(at)} cell(s) <what>: {at})".
Part(what, at) == [n |-> Len(at), text |-> what, at |-> at]

\* "; ".join(parts) if parts else "Metadata changes only."
Summary(added, removed, modified) ==
    LET parts == (IF added # <<>> THEN <<Part("cell(s) added (indices", added)>> ELSE <<>>)
              \o (IF removed # <<>> THEN <<Part("cell(s) removed (snapshot indices", removed)>>
                                    ELSE <<>>)
              \o (IF modified # <<>> THEN <<Part("cell(s) modified (indices", modified)>>
                                     ELSE <<>>)
    IN  IF parts # <<>> THEN parts
        ELSE <<[text |-> "Metadata changes only."]>>

\* DiffResult, were equal hashes not answered before the cells are compared.
DiffResultNoShortCut(snap, snap_hash, nb) ==
    LET current_hash == HashNotebook(nb)
    IN  IF snap = None
        THEN [changed |-> FALSE,
              summary |-> <<[text |->
                  "No snapshot taken yet. Use snapshot_notebook first."]>>,
              added_cells |-> <<>>,
              removed_cells |-> <<>>,
              modified_cells |-> <<>>,
              current_hash |-> current_hash,
              snapshot_hash |-> None]
        ELSE LET snap_cells == Get(snap[1], "cells", <<>>)
                 curr_cells == Get(nb, "cells", <<>>)
                 snap_ids == CellIds(snap_cells)
                 curr_ids == CellIds(curr_cells)
                 removed == RemovedCells(snap_ids, curr_ids)
                 added == AddedCells(snap_ids, curr_ids)
                 modified == ModifiedCells(snap_cells, curr_cells,
                                           snap_ids, curr_ids)
             IN  [changed |-> TRUE,
                  summary |-> Summary(added, removed, modified),
                  added_cells |-> added,
                  removed_cells |-> removed,
                  modified_cells |-> modified,
                  current_hash |-> current_hash,
                  snapshot_hash |-> snap_hash]

\* NotebookTracker.diff on a tracker that holds snap and snap_hash.
DiffResult(snap, snap_hash, nb) ==
    LET current_hash == HashNotebook(nb)
    IN  IF snap = None
        THEN [changed |-> FALSE,
              summary |-> <<[text |->
                  "No snapshot taken yet. Use snapshot_notebook first."]>>,
              added_cells |-> <<>>,
              removed_cells |-> <<>>,
              modified_cells |-> <<>>,
              current_hash |-> current_hash,
              snapshot_hash |-> None]
        ELSE IF Some(current_hash) = snap_hash
        THEN [changed |-> FALSE,
              summary |-> <<[text |->
                  "No changes detected since last snapshot."]>>,
              added_cells |-> <<>>,
              removed_cells |-> <<>>,
              modified_cells |-> <<>>,
              current_hash |-> current_hash,
              snapshot_hash |-> snap_hash]
        ELSE LET snap_cells == Get(snap[1], "cells", <<>>)
                 curr_cells == Get(nb, "cells", <<>>)
                 snap_ids == CellIds(snap_cells)
                 curr_ids == CellIds(curr_cells)
                 removed == RemovedCells(snap_ids, curr_ids)
                 added == AddedCells(snap_ids, curr_ids)
                 modified == ModifiedCells(snap_cells, curr_cells,
                                           snap_ids, curr_ids)
             IN  [changed |-> TRUE,
                  summary |-> Summary(added, removed, modified),
                  added_cells |-> added,
                  removed_cells |-> removed,
                  modified_cells |-> modified,
                  current_hash |-> current_hash,
                  snapshot_hash |-> snap_hash]

\* NotebookTracker.has_snapshot
HasSnapshot == snapshot # None

\* ---------------------------------------------- NotebookTracker: inputs
\* The cells the notebooks are made of: two ids and no id, two texts, a
\* source given as a list, a cell without cell_type.
CellPool ==
    { [id |-> "a", cell_type |-> "code", source |-> Str("x")],
      [id |-> "a", cell_type |-> "code", source |-> Lines(<<"x", "y">>)],
      [id |-> "b", cell_type |-> "markdown", source |-> Str("x")],
      [cell_type |-> "code", source |-> Str("x")],
      [source |-> Str("xy")] }

RECURSIVE SeqsUpTo(_, _)
SeqsUpTo(S, n) ==
    IF n = 0 THEN {<<>>}
    ELSE LET shorter == SeqsUpTo(S, n - 1)
         IN  shorter \cup {Append(q, c) : q \in shorter, c \in S}

\* The notebooks of at most n cells.
Notebooks(n) == {[cells |-> q] : q \in SeqsUpTo(CellPool, n)}

\* ---------------------------------------------- NotebookTracker: actions
\* A caller holds a notebook; the tracker was just constructed.
TrackerInit ==
    /\ ClientInit
    /\ ServerIdle
    /\ content \in Notebooks(MaxCells)
    /\ other \in Notebooks(MaxCells - Len(content.cells))
    /\ NoSnapshot

\* TakeSnapshot, were the caller's object stored and not a deep copy of it.
TakeSnapshotNoCopy ==
    /\ snapshot' = Some(content)
    /\ shared' = TRUE
    /\ snapshot_hash' = Some(HashNotebook(content))
    /\ snapshot_arg' = Some(content)
    /\ ret' = [op |-> "take_snapshot", value |-> HashNotebook(content)]
    /\ UNCHANGED <<content, other, jclient, server>>

\* NotebookTracker.take_snapshot(content)
TakeSnapshot ==
    /\ snapshot' = Some(content)
    /\ shared' = FALSE
    /\ snapshot_hash' = Some(HashNotebook(content))
    /\ snapshot_arg' = Some(content)
    /\ ret' = [op |-> "take_snapshot", value |-> HashNotebook(content)]
    /\ UNCHANGED <<content, other, jclient, server>>

\* Diff, were the hash it has computed kept as the snapshot's hash.
DiffKeepsHash ==
    /\ ret' = [op |-> "diff",
               value |-> DiffResult(snapshot, snapshot_hash, content)]
    /\ snapshot_hash' = IF snapshot = None THEN snapshot_hash
                                           ELSE Some(HashNotebook(content))
    /\ UNCHANGED <<content, other, snapshot, shared, snapshot_arg, jclient,
                   server>>

\* Diff, were the first diff to take the notebook it is given as snapshot.
DiffTakesSnapshot ==
    /\ ret' = [op |-> "diff",
               value |-> DiffResult(snapshot, snapshot_hash, content)]
    /\ snapshot' = IF snapshot = None THEN Some(content) ELSE snapshot
    /\ snapshot_hash' = IF snapshot = None THEN Some(HashNotebook(content))
                                           ELSE snapshot_hash
    /\ UNCHANGED <<content, other, shared, snapshot_arg, jclient, server>>

\* NotebookTracker.diff(content)
Diff ==
    /\ ret' = [op |-> "diff",
               value |-> DiffResult(snapshot, snapshot_hash, content)]
    /\ UNCHANGED <<content, other, snapshot, snapshot_hash, shared,
                   snapshot_arg, jclient, server>>

\* The caller edits its notebook object in place; an object that the
\* tracker shared with the caller would change with it.
Mutate ==
    /\ content' = other
    /\ other' = content
    /\ snapshot' = IF shared THEN Some(other) ELSE snapshot
    /\ ret' = [op |-> "none"]
    /\ UNCHANGED <<snapshot_hash, shared, snapshot_arg, jclient, server>>

TrackerNext ==
    \/ TakeSnapshot
    \/ Diff
    \/ Mutate

TrackerSpec == TrackerInit /\ [][TrackerNext]_state

\* ------------------------------------------------ server tools: operators
\* Text the tools put together is a sequence of pieces: single characters
\* where the code looks into the text, longer strings where it only copies.
Whitespace == {" ", "\n", "\t"}

RECURSIVE LStrip(_)
LStrip(s) ==
    IF s # <<>> /\ Head(s) \in Whitespace THEN LStrip(Tail(s)) ELSE s

RECURSIVE RStrip(_)
RStrip(s) ==
    IF s # <<>> /\ s[Len(s)] \in Whitespace
    THEN RStrip(SubSeq(s, 1, Len(s) - 1))
    ELSE s

\* str.strip()
Strip(s) == RStrip(LStrip(s))

\* What _format_outputs appends to parts for one output: Some(text), or
\* None for an output_type it does not know.
OutputPart(out) ==
    LET otype == Get(out, "output_type", "")
        data == Get(out, "data", EmptyDict)
    IN  IF otype = "stream" THEN Some(Get(out, "text", <<>>))
        ELSE IF otype \in {"execute_result", "display_data"}
        THEN IF "text/plain" \in DOMAIN data THEN Some(data["text/plain"])
             ELSE IF "text/html" \in DOMAIN data
             THEN Some(<<"[HTML output]">>)
             ELSE IF "image/png" \in DOMAIN data
             THEN Some(<<"[Image output (PNG)]">>)
             ELSE Some(<<"[", otype, ":", " ", ToString(DOMAIN data), "]">>)
        ELSE IF otype = "error"
        THEN Some(<<Get(out, "ename", "Error"), ":", " ">>
                  \o Get(out, "evalue", <<>>)
                  \o <<"\n">>
                  \o JoinLines(Get(out, "traceback", <<>>)))
        ELSE None

RECURSIVE OutputParts(_)
OutputParts(outs) ==
    IF outs = <<>> THEN <<>>
    ELSE LET part == OutputPart(Head(outs))
         IN  (IF part = None THEN <<>> ELSE <<part[1]>>)
                 \o OutputParts(Tail(outs))

\* _format_outputs
FormatOutputs(outs) == StripAnsi(JoinLines(OutputParts(outs)))

\* FormatExecutionResult, were output_text tested before it is stripped.
FormatExecutionResultNoStrip(res, cell_index) ==
    LET output_text == FormatOutputs(res.outputs)
    IN  IF res.status = "ok"
        THEN <<"Executed successfully (cell ", ToString(cell_index), ").">>
             \o (IF output_text # <<>>
                 THEN <<"\n\nOutput:\n">> \o Strip(output_text)
                 ELSE <<>>)
        ELSE LET err == res.error[1]
             IN  <<"Execution error in cell ", ToString(cell_index), ".\n\n",
                   Get(err, "ename", "Error"), ":", " ">>
                 \o Get(err, "evalue", <<>>)
                 \o <<"\n">>
                 \o (IF Get(err, "traceback", <<>>) # <<>>
                     THEN <<"\nTraceback:\n">> \o err.traceback
                     ELSE <<>>)
                 \o <<"\n\nUse edit_and_run_cell(cell_index=",
                      ToString(cell_index),
                      ", new_source=...) to fix this cell.">>

\* _format_execution_result.  res is a dict as execute_code returns it; its
\* error is set whenever its status is not "ok".
FormatExecutionResult(res, cell_index) ==
    LET output_text == FormatOutputs(res.outputs)
    IN  IF res.status = "ok"
        THEN <<"Executed successfully (cell ", ToString(cell_index), ").">>
             \o (IF Strip(output_text) # <<>>
                 THEN <<"\n\nOutput:\n">> \o Strip(output_text)
                 ELSE <<>>)
        ELSE LET err == res.error[1]
             IN  <<"Execution error in cell ", ToString(cell_index), ".\n\n",
                   Get(err, "ename", "Error"), ":", " ">>
                 \o Get(err, "evalue", <<>>)
                 \o <<"\n">>
                 \o (IF Get(err, "traceback", <<>>) # <<>>
                     THEN <<"\nTraceback:\n">> \o err.traceback
                     ELSE <<>>)
                 \o <<"\n\nUse edit_and_run_cell(cell_index=",
                      ToString(cell_index),
                      ", new_source=...) to fix this cell.">>

\* What becomes of a helper of the client that reads and writes the
\* notebook: all goes well, get_notebook raises, or save_notebook raises.
Fates == {"ok", "get", "save"}

\* The fates of the helpers a tool calls one after the other: the second is
\* called only when the first has returned.
FatePairs ==
    {<<"ok", f>> : f \in Fates} \cup {<<f, "ok">> : f \in Fates}

\* cell_index < 0 or cell_index >= len(cells)
OutOfRange(cells, i) == i < 0 \/ i >= Len(cells)

\* str() of the IndexError of edit_cell_source and update_cell_outputs
RangeMessage(cells, i) ==
    <<"Cell index ", ToString(i), " out of range (0-",
      ToString(Len(cells) - 1), ")">>

\* A helper ends with an exception (raised names it) or returns (raised is
\* ""); cells is the notebook the Jupyter server stores afterwards.
Returned(cells) == [raised |-> "", cells |-> cells]
Threw(exc, cells) == [raised |-> exc, cells |-> cells]

\* The cell c with key k set to v.
WithKey(c, k, v) ==
    [f \in DOMAIN c \cup {k} |-> IF f = k THEN v ELSE c[f]]

\* JupyterClient.edit_cell_source
EditCellSource(cells, i, new_source, fate) ==
    IF fate = "get" THEN Threw("ClientError", cells)
    ELSE IF OutOfRange(cells, i) THEN Threw("IndexError", cells)
    ELSE IF fate = "save" THEN Threw("ClientError", cells)
    ELSE LET c == WithKey(cells[i + 1], "source", new_source)
         IN  Returned([cells EXCEPT ![i + 1] =
                 IF c.cell_type = "code" THEN WithKey(c, "outputs", <<>>)
                                         ELSE c])

\* JupyterClient.update_cell_outputs
UpdateCellOutputs(cells, i, outs, fate) ==
    IF fate = "get" THEN Threw("ClientError", cells)
    ELSE IF OutOfRange(cells, i) THEN Threw("IndexError", cells)
    ELSE IF fate = "save" THEN Threw("ClientError", cells)
    ELSE Returned([cells EXCEPT ![i + 1] = WithKey(@, "outputs", outs)])

\* JupyterClient.add_cell_to_notebook(path, source, "code", outputs=outs);
\* the new cell's position is Len(cells).
AddCellToNotebook(cells, source, outs, fate) ==
    IF fate # "ok" THEN Threw("ClientError", cells)
    ELSE Returned(Append(cells, [cell_type |-> "code", source |-> source,
                                 outputs |-> outs]))

\* What a tool gives back: a text, or an exception that leaves the tool.
Said(tool, text) == [tool |-> tool, raised |-> FALSE, text |-> text]
Raises(tool) == [tool |-> tool, raised |-> TRUE, text |-> <<>>]

\* --------------------------------------------------- server tools: inputs
Codes == {"print(x)"}
Indexes == (-1)..MaxDoc

\* The notebook connect() finds at the path: empty, a markdown cell, or a
\* code cell with the output of an earlier run.
FoundCells ==
    {<<>>,
     <<[cell_type |-> "markdown", source |-> "# notes"]>>,
     <<[cell_type |-> "code", source |-> "x = 0",
        outputs |-> <<[output_type |-> "stream", name |-> "stdout",
                       text |-> <<"o", "l", "d">>]>>]>>}

\* The dict execute_code returns for the locals st of its loop.
Outcome(st) ==
    [status |-> st.status, outputs |-> st.outputs, error |-> st.error]

\* Results of execute_code: nothing printed, a line printed, only white
\* space printed, an error message after the line, the deadline expired
\* after the line.
Silent == [outputs |-> <<>>, error |-> None, status |-> "ok", brk |-> FALSE]
Printed == OnStream(Silent, [name |-> "stdout", text |-> <<"h", "i", "\n">>])
Spaced == OnStream(Silent, [name |-> "stdout", text |-> <<" ", "\n">>])
Failed ==
    OnError(Printed, CHOOSE c \in ErrorContents : c.ename = "ValueError")
TimedOut ==
    [Printed EXCEPT !.status = "timeout", !.error = Some(TimeoutDetail(120))]
Outcomes == {Outcome(Silent), Outcome(Printed), Outcome(Spaced),
             Outcome(Failed), Outcome(TimedOut)}

\* What execute_code does for a tool: it returns a result, or it raises.
Executions == {None} \cup {Some(o) : o \in Outcomes}

\* -------------------------------------------------- server tools: actions
\* connect(server_url, token, notebook_path) finds the server, the notebook
\* and a session for it.
Connect(cells) ==
    /\ ~srv_client
    /\ srv_client' = TRUE
    /\ srv_kernel_id' = Some("k1")
    /\ notebook_path' = Some("nb.ipynb")
    /\ stored' = cells
    /\ result' = None
    /\ writeback' = "none"
    /\ reply' = Said("connect", <<"Connected to Jupyter server">>)
    /\ UNCHANGED <<flight, jclient, tracker>>

\* execute_cell(code, add_to_notebook, cell_index); exec is what
\* execute_code does, fates what becomes of the helpers called.
ExecuteCell(code, add_to_notebook, cell_index, exec, fates) ==
    /\ (add_to_notebook /\ cell_index < 0) => Len(stored) < MaxDoc
    /\ IF ~srv_client \/ srv_kernel_id = None
       THEN /\ reply' = Said("execute_cell", <<"No kernel available. ",
                             "Use connect() or create_notebook() first.">>)
            /\ result' = None
            /\ writeback' = "none"
            /\ UNCHANGED stored
       ELSE IF exec = None
       THEN /\ reply' = Raises("execute_cell")
            /\ result' = None
            /\ writeback' = "none"
            /\ UNCHANGED stored
       ELSE IF add_to_notebook /\ notebook_path # None
       THEN IF cell_index >= 0
            THEN LET e == EditCellSource(stored, cell_index, code, fates[1])
                     u == UpdateCellOutputs(e.cells, cell_index,
                                            exec[1].outputs, fates[2])
                     ok == e.raised = "" /\ u.raised = ""
                 IN  /\ stored' = IF e.raised = "" THEN u.cells ELSE e.cells
                     /\ writeback' = IF ok THEN "ok" ELSE "failed"
                     /\ reply' = Said("execute_cell",
                            FormatExecutionResult(exec[1],
                                IF ok THEN cell_index ELSE -1))
                     /\ result' = exec
            ELSE LET a == AddCellToNotebook(stored, code, exec[1].outputs,
                                            fates[1])
                     ok == a.raised = ""
                 IN  /\ stored' = a.cells
                     /\ writeback' = IF ok THEN "ok" ELSE "failed"
                     /\ reply' = Said("execute_cell",
                            FormatExecutionResult(exec[1],
                                IF ok THEN Len(stored) ELSE -1))
                     /\ result' = exec
       ELSE /\ reply' = Said("execute_cell",
                             FormatExecutionResult(exec[1], -1))
            /\ result' = exec
            /\ writeback' = "none"
            /\ UNCHANGED stored
    /\ UNCHANGED <<srv_client, srv_kernel_id, notebook_path, flight, jclient,
                   tracker>>

\* EditAndRunCell, were update_cell_outputs called outside a try.
EditAndRunCellRaises(cell_index, new_source, exec, fates) ==
    /\ IF ~srv_client \/ srv_kernel_id = None \/ notebook_path = None
       THEN /\ reply' = Said("edit_and_run_cell",
                             <<"No notebook/kernel available. ",
                               "Use connect() or create_notebook() first.">>)
            /\ result' = None
            /\ writeback' = "none"
            /\ UNCHANGED stored
       ELSE LET e == EditCellSource(stored, cell_index, new_source, fates[1])
            IN  IF e.raised = "IndexError"
                THEN /\ reply' = Said("edit_and_run_cell",
                                      RangeMessage(stored, cell_index))
                     /\ result' = None
                     /\ writeback' = "none"
                     /\ UNCHANGED stored
                ELSE IF e.raised # ""
                THEN /\ reply' = Said("edit_and_run_cell",
                                      <<"Failed to edit cell ",
                                        ToString(cell_index), ": ", e.raised>>)
                     /\ result' = None
                     /\ writeback' = "none"
                     /\ UNCHANGED stored
                ELSE IF exec = None
                THEN /\ reply' = Raises("edit_and_run_cell")
                     /\ result' = None
                     /\ writeback' = "none"
                     /\ stored' = e.cells
                ELSE LET u == UpdateCellOutputs(e.cells, cell_index,
                                                exec[1].outputs, fates[2])
                     IN  /\ stored' = u.cells
                         /\ writeback' = IF u.raised = "" THEN "ok"
                                                          ELSE "failed"
                         /\ reply' = IF u.raised = ""
                                      THEN Said("edit_and_run_cell",
                                               FormatExecutionResult(
                                                   exec[1], cell_index))
                                      ELSE Raises("edit_and_run_cell")
                         /\ result' = exec
    /\ UNCHANGED <<srv_client, srv_kernel_id, notebook_path, flight, jclient,
                   tracker>>

\* edit_and_run_cell(cell_index, new_source)
EditAndRunCell(cell_index, new_source, exec, fates) ==
    /\ IF ~srv_client \/ srv_kernel_id = None \/ notebook_path = None
       THEN /\ reply' = Said("edit_and_run_cell",
                             <<"No notebook/kernel available. ",
                               "Use connect() or create_notebook() first.">>)
            /\ result' = None
            /\ writeback' = "none"
            /\ UNCHANGED stored
       ELSE LET e == EditCellSource(stored, cell_index, new_source, fates[1])
            IN  IF e.raised = "IndexError"
                THEN /\ reply' = Said("edit_and_run_cell",
                                      RangeMessage(stored, cell_index))
                     /\ result' = None
                     /\ writeback' = "none"
                     /\ UNCHANGED stored
                ELSE IF e.raised # ""
                THEN /\ reply' = Said("edit_and_run_cell",
                                      <<"Failed to edit cell ",
                                        ToString(cell_index), ": ", e.raised>>)
                     /\ result' = None
                     /\ writeback' = "none"
                     /\ UNCHANGED stored
                ELSE IF exec = None
                THEN /\ reply' = Raises("edit_and_run_cell")
                     /\ result' = None
                     /\ writeback' = "none"
                     /\ stored' = e.cells
                ELSE LET u == UpdateCellOutputs(e.cells, cell_index,
                                                exec[1].outputs, fates[2])
                     IN  /\ stored' = u.cells
                         /\ writeback' = IF u.raised = "" THEN "ok"
                                                          ELSE "failed"
                         /\ reply' = Said("edit_and_run_cell",
                                FormatExecutionResult(exec[1], cell_index))
                         /\ result' = exec
    /\ UNCHANGED <<srv_client, srv_kernel_id, notebook_path, flight, jclient,
                   tracker>>

\* The reply of a tool that needs a notebook while none is open.
NoNotebook(tool) ==
    Said(tool, <<"No notebook open. ",
                 "Use connect() or create_notebook() first.">>)

\* edit_cell(cell_index, new_source); fate is what becomes of
\* edit_cell_source.
EditCell(cell_index, new_source, fate) ==
    /\ IF ~srv_client \/ notebook_path = None
       THEN /\ reply' = NoNotebook("edit_cell")
            /\ UNCHANGED stored
       ELSE LET e == EditCellSource(stored, cell_index, new_source, fate)
            IN  /\ stored' = e.cells
                /\ reply' = Said("edit_cell",
                       IF e.raised = "IndexError"
                       THEN RangeMessage(stored, cell_index)
                       ELSE IF e.raised # ""
                       THEN <<"Failed to edit cell: ", e.raised>>
                       ELSE <<"Cell ", ToString(cell_index), " updated.">>)
    /\ result' = None
    /\ writeback' = "none"
    /\ UNCHANGED <<srv_client, srv_kernel_id, notebook_path, flight, jclient,
                   tracker>>

\* get_cell_output(cell_index); fate is what becomes of get_notebook.
GetCellOutput(cell_index, fate) ==
    /\ reply' =
         IF ~srv_client \/ notebook_path = None
         THEN NoNotebook("get_cell_output")
         ELSE Said("get_cell_output",
              IF fate = "get" THEN <<"Failed to read notebook: ", "ClientError">>
              ELSE IF OutOfRange(stored, cell_index)
              THEN RangeMessage(stored, cell_index)
              ELSE LET cell == stored[cell_index + 1]
                   IN  IF cell.cell_type # "code"
                       THEN <<"Cell ", ToString(cell_index), " is a ",
                              cell.cell_type, " cell (no outputs).">>
                       ELSE IF Get(cell, "outputs", <<>>) = <<>>
                       THEN <<"Cell ", ToString(cell_index),
                              " has no outputs.">>
                       ELSE <<"Cell ", ToString(cell_index), " output:\n">>
                                \o FormatOutputs(cell.outputs))
    /\ result' = None
    /\ writeback' = "none"
    /\ UNCHANGED <<srv_client, srv_kernel_id, notebook_path, stored, flight,
                   jclient, tracker>>

ServerNext ==
    \/ \E cells \in FoundCells : Connect(cells)
    \/ \E i \in Indexes, code \in Codes, fate \in Fates :
            EditCell(i, code, fate)
    \/ \E i \in Indexes, fate \in {"ok", "get"} : GetCellOutput(i, fate)
    \/ \E code \in Codes, add \in BOOLEAN, i \in Indexes,
          exec \in Executions, fates \in FatePairs :
            ExecuteCell(code, add, i, exec, fates)
    \/ \E i \in Indexes, code \in Codes, exec \in Executions,
          fates \in FatePairs :
            EditAndRunCell(i, code, exec, fates)

ServerSpec == Init /\ [][ServerNext]_state

\* ------------------------------- server tools: edit_and_run_cell by steps
\* edit_and_run_cell suspends wherever it awaits: at the GET and at the PUT
\* of edit_cell_source, at execute_code, and at the GET and the PUT of
\* update_cell_outputs.  Meanwhile other requests reach the Jupyter server.
Idle == [at |-> "idle"]

\* JupyterClient.add_cell_to_notebook(path, source, cell_type, position)
AddCellToNotebookAt(cells, source, cell_type, position, fate) ==
    LET c == [cell_type |-> cell_type, source |-> source]
        cell == IF cell_type = "code" THEN WithKey(c, "outputs", <<>>) ELSE c
    IN  IF fate # "ok" THEN Threw("ClientError", cells)
        ELSE IF position # None /\ 0 <= position[1]
                                /\ position[1] <= Len(cells)
        THEN Returned(SubSeq(cells, 1, position[1]) \o <<cell>>
                        \o SubSeq(cells, position[1] + 1, Len(cells)))
        ELSE Returned(Append(cells, cell))

\* The index add_cell_to_notebook returns with the notebook.
AddedIndex(cells, position) ==
    IF position # None /\ 0 <= position[1] /\ position[1] <= Len(cells)
    THEN position[1]
    ELSE Len(cells)

\* add_cell(source, cell_type, position), here the request of another
\* writer of the notebook.
AddCell(source, cell_type, position, fate) ==
    /\ Len(stored) < MaxDoc
    /\ IF ~srv_client \/ notebook_path = None
       THEN /\ reply' = NoNotebook("add_cell")
            /\ UNCHANGED stored
       ELSE LET pos == IF position < 0 THEN None ELSE Some(position)
                a == AddCellToNotebookAt(stored, source, cell_type, pos, fate)
            IN  /\ stored' = a.cells
                /\ reply' = Said("add_cell",
                       IF a.raised # ""
                       THEN <<"Failed to add cell: ", a.raised>>
                       ELSE <<"Added ", cell_type, " cell at index ",
                              ToString(AddedIndex(stored, pos)), ".">>)
    /\ UNCHANGED <<srv_client, srv_kernel_id, notebook_path, result,
                   writeback, flight, jclient, tracker>>

\* edit_and_run_cell is called and checks the globals.
EditAndRunCellCall(cell_index, new_source) ==
    /\ flight = Idle
    /\ IF ~srv_client \/ srv_kernel_id = None \/ notebook_path = None
       THEN /\ reply' = Said("edit_and_run_cell",
                             <<"No notebook/kernel available. ",
                               "Use connect() or create_notebook() first.">>)
            /\ result' = None
            /\ writeback' = "none"
            /\ UNCHANGED flight
       ELSE /\ flight' = [at |-> "edit_get", cell_index |-> cell_index,
                          new_source |-> new_source, nb |-> <<>>,
                          result |-> None]
            /\ UNCHANGED <<reply, result, writeback>>
    /\ UNCHANGED <<srv_client, srv_kernel_id, notebook_path, stored, jclient,
                   tracker>>

\* edit_cell_source gets the notebook, checks the index and edits its copy.
EditGet(fate) ==
    /\ flight.at = "edit_get"
    /\ LET e == EditCellSource(stored, flight.cell_index, flight.new_source,
                               fate)
       IN  IF e.raised = ""
           THEN /\ flight' = [flight EXCEPT !.at = "edit_save", !.nb = e.cells]
                /\ UNCHANGED <<reply, result, writeback>>
           ELSE /\ flight' = Idle
                /\ reply' = Said("edit_and_run_cell",
                       IF e.raised = "IndexError"
                       THEN RangeMessage(stored, flight.cell_index)
                       ELSE <<"Failed to edit cell ",
                              ToString(flight.cell_index), ": ", e.raised>>)
                /\ result' = None
                /\ writeback' = "none"
    /\ UNCHANGED <<srv_client, srv_kernel_id, notebook_path, stored, jclient,
                   tracker>>

\* edit_cell_source saves its copy of the notebook.
EditSave(fate) ==
    /\ flight.at = "edit_save"
    /\ IF fate = "ok"
       THEN /\ stored' = flight.nb
            /\ flight' = [flight EXCEPT !.at = "execute"]
            /\ UNCHANGED <<reply, result, writeback>>
       ELSE /\ flight' = Idle
            /\ reply' = Said("edit_and_run_cell",
                             <<"Failed to edit cell ",
                               ToString(flight.cell_index), ": ",
                               "ClientError">>)
            /\ result' = None
            /\ writeback' = "none"
            /\ UNCHANGED stored
    /\ UNCHANGED <<srv_client, srv_kernel_id, notebook_path, jclient, tracker>>

\* execute_code returns exec[1], or raises.
Execute(exec) ==
    /\ flight.at = "execute"
    /\ IF exec = None
       THEN /\ flight' = Idle
            /\ reply' = Raises("edit_and_run_cell")
            /\ result' = None
            /\ writeback' = "none"
       ELSE /\ flight' = [flight EXCEPT !.at = "update_get", !.result = exec]
            /\ UNCHANGED <<reply, result, writeback>>
    /\ UNCHANGED <<srv_client, srv_kernel_id, notebook_path, stored, jclient,
                   tracker>>

\* update_cell_outputs gets the notebook, checks the index and puts the
\* outputs into its copy; what it raises is swallowed.
UpdateGet(fate) ==
    /\ flight.at = "update_get"
    /\ LET u == UpdateCellOutputs(stored, flight.cell_index,
                                  flight.result[1].outputs, fate)
       IN  IF u.raised = ""
           THEN /\ flight' = [flight EXCEPT !.at = "update_save",
                                            !.nb = u.cells]
                /\ UNCHANGED <<reply, result, writeback>>
           ELSE /\ flight' = Idle
                /\ reply' = Said("edit_and_run_cell",
                       FormatExecutionResult(flight.result[1],
                                             flight.cell_index))
                /\ result' = flight.result
                /\ writeback' = "failed"
    /\ UNCHANGED <<srv_client, srv_kernel_id, notebook_path, stored, jclient,
                   tracker>>

\* update_cell_outputs saves its copy, and edit_and_run_cell returns.
UpdateSave(fate) ==
    /\ flight.at = "update_save"
    /\ stored' = IF fate = "ok" THEN flight.nb ELSE stored
    /\ writeback' = IF fate = "ok" THEN "ok" ELSE "failed"
    /\ flight' = Idle
    /\ reply' = Said("edit_and_run_cell",
                     FormatExecutionResult(flight.result[1],
                                           flight.cell_index))
    /\ result' = flight.result
    /\ UNCHANGED <<srv_client, srv_kernel_id, notebook_path, jclient, tracker>>

\* What the other writer adds, and where.
AddedSources == {"# added"}
Positions == {-1, 0}

SharedNext ==
    \/ \E cells \in FoundCells : Connect(cells)
    \/ \E i \in Indexes, code \in Codes : EditAndRunCellCall(i, code)
    \/ \E fate \in {"ok", "get"} : EditGet(fate)
    \/ \E fate \in {"ok", "save"} : EditSave(fate)
    \/ \E exec \in Executions : Execute(exec)
    \/ \E fate \in {"ok", "get"} : UpdateGet(fate)
    \/ \E fate \in {"ok", "save"} : UpdateSave(fate)
    \/ \E src \in AddedSources, pos \in Positions, fate \in Fates :
            AddCell(src, "markdown", pos, fate)

SharedSpec == Init /\ [][SharedNext]_state

\* ----------------------------------------------------------------- claims
\* What the claims say of a log, stated without the loop's own operators.

\* The correlation reference a message carries, NoId if it carries none.
Ref(m) ==
    IF "parent_header" \in DOMAIN m /\ "msg_id" \in DOMAIN m.parent_header
    THEN m.parent_header.msg_id
    ELSE NoId

OutputKinds == {"stream", "display_data", "execute_result", "error"}

\* The messages of log l that bear id and have one of the given kinds.
Bearing(l, id, kinds) ==
    SelectSeq(l, LAMBDA m : Ref(m) = id /\ m.msg_type \in kinds)

\* The Output Record of one output message.
RecordOf(m) ==
    LET st == [outputs |-> <<>>, error |-> None, status |-> "ok",
               brk |-> FALSE]
    IN  (CASE m.msg_type = "stream" -> OnStream(st, m.content)
           [] m.msg_type = "display_data" -> OnDisplayData(st, m.content)
           [] m.msg_type = "execute_result" -> OnExecuteResult(st, m.content)
           [] m.msg_type = "error" -> OnError(st, m.content)).outputs[1]

\* The records of the output messages of l that bear id, in arrival order.
Expected(l, id) ==
    LET ms == Bearing(l, id, OutputKinds)
    IN  [i \in 1..Len(ms) |-> RecordOf(ms[i])]

\* The call of p has just consumed one more message.
Consumed(p) == pc[p] = "recv" /\ Len(log'[p]) = Len(log[p]) + 1

\* What the call of p has gathered does not change and its loop goes on.
Untouched(p) ==
    /\ outputs'[p] = outputs[p]
    /\ status'[p] = status[p]
    /\ error'[p] = error[p]
    /\ pc'[p] = "recv"

\* C1: a message whose correlation reference differs from the call's msg_id,
\* or that carries none, is discarded whatever its kind: it adds no Output
\* Record, leaves status and Error Detail alone and does not end the loop.
C1_ForeignDiscarded ==
    [][\A p \in Procs :
        Consumed(p) /\ Ref(log'[p][Len(log'[p])]) # msg_id[p]
            => Untouched(p)]_vars

\* A call that has consumed an execute_reply with error status answering
\* another request (or none) and is still waiting with nothing gathered.
C1_Witness ==
    \E p \in Procs :
        /\ pc[p] = "recv"
        /\ status[p] = "ok" /\ error[p] = None /\ outputs[p] = <<>>
        /\ \E i \in 1..Len(log[p]) :
            /\ Ref(log[p][i]) # msg_id[p]
            /\ log[p][i].msg_type = "execute_reply"
            /\ log[p][i].content.status = "error"

\* C2: the outputs are exactly the records of the messages that bear the
\* call's msg_id and have an output kind, in arrival order.
C2_OutputsInArrivalOrder ==
    \A p \in Procs :
        pc[p] \in {"recv", "done"}
            => outputs[p] = Expected(log[p], msg_id[p])

\* A call whose log holds a foreign message between two output messages of
\* different kinds, the later one a stream.
C2_Witness ==
    \E p \in Procs :
        /\ pc[p] = "recv"
        /\ Len(log[p]) = 3
        /\ Len(outputs[p]) = 2
        /\ Ref(log[p][2]) # msg_id[p]
        /\ outputs[p][1].output_type = "execute_result"
        /\ outputs[p][2].output_type = "stream"

\* The loop of p has ended without the execute_reply for its request.
ExpiredCall(p) ==
    pc[p] = "done" /\ Bearing(log[p], msg_id[p], {"execute_reply"}) = <<>>

\* C3: when the deadline elapses before the execute_reply arrives, the
\* outcome has status timeout, an Error Detail naming the timeout, and all
\* the Output Records gathered before, an error record included.
C3_TimeoutKeepsOutputs ==
    \A p \in Procs :
        ExpiredCall(p)
            => /\ status[p] = "timeout"
               /\ error[p] # None
               /\ error[p][1].ename = "TimeoutError"
               /\ error[p][1].evalue[2] = ToString(timeout[p])
               /\ outputs[p] = Expected(log[p], msg_id[p])

\* A call that timed out after an error message and a stream message.
C3_Witness ==
    \E p \in Procs :
        /\ ExpiredCall(p)
        /\ status[p] = "timeout"
        /\ Len(outputs[p]) = 2
        /\ \E i \in 1..2 : outputs[p][i].output_type = "error"

\* The loop of p has ended on the execute_reply for its request.
RepliedCall(p) ==
    /\ pc[p] = "done"
    /\ log[p] # <<>>
    /\ Ref(log[p][Len(log[p])]) = msg_id[p]
    /\ log[p][Len(log[p])].msg_type = "execute_reply"

\* The execute_reply that ended the loop of p.
ReplyOf(p) == log[p][Len(log[p])]

\* The error messages for the request of p, in arrival order.
ErrorsOf(p) == Bearing(log[p], msg_id[p], {"error"})

\* C4: when several error messages for the request arrive before the
\* execute_reply, the returned Error Detail is the one built from the first
\* of them, and each of them has its error record.
C4_FirstErrorWins ==
    \A p \in Procs :
        RepliedCall(p) /\ Len(ErrorsOf(p)) >= 1
            => /\ error[p] = Some(ErrorDetail(ErrorsOf(p)[1].content))
               /\ Len(Bearing(log[p], msg_id[p], {"error"}))
                      = Len(SelectSeq(outputs[p],
                                LAMBDA r : r.output_type = "error"))

\* C5: when an error message for the request is followed by an
\* execute_reply with error status, the outcome has status error and an
\* Error Detail built from an error message, not from the reply; the reply's
\* fields make the Error Detail only when no error message came before it.
C5_ReplyDoesNotOverride ==
    \A p \in Procs :
        RepliedCall(p) /\ ReplyOf(p).content.status = "error"
            => /\ status[p] = "error"
               /\ IF ErrorsOf(p) # <<>>
                  THEN /\ \E i \in 1..Len(ErrorsOf(p)) :
                            error[p] = Some(ErrorDetail(ErrorsOf(p)[i].content))
                       /\ error[p] # Some(ErrorDetail(ReplyOf(p).content))
                  ELSE error[p] = Some(ErrorDetail(ReplyOf(p).content))

\* A call that returned after one error message and an execute_reply with
\* error status.
C5_Witness ==
    \E p \in Procs :
        /\ RepliedCall(p)
        /\ ReplyOf(p).content.status = "error"
        /\ Len(ErrorsOf(p)) = 1
        /\ status[p] = "error"

\* C6: the loop ends normally only on the execute_reply for the request; a
\* status message for the request, idle included, changes nothing and does
\* not end the loop, so later output messages are still gathered.
C6_OnlyReplyEndsLoop ==
    [][\A p \in Procs :
        Consumed(p) =>
            LET m == log'[p][Len(log'[p])]
            IN  /\ Ref(m) = msg_id[p] /\ m.msg_type = "status"
                    => Untouched(p)
                /\ pc'[p] = "done" /\ status'[p] # "timeout"
                    => Ref(m) = msg_id[p] /\ m.msg_type = "execute_reply"
                /\ Ref(m) = msg_id[p] /\ m.msg_type \in OutputKinds
                    => outputs'[p] = Append(outputs[p], RecordOf(m))]_vars

\* A call that returned after an idle status message, then a stream message,
\* then the execute_reply, with the stream record in its outputs.
C6_Witness ==
    \E p \in Procs :
        /\ RepliedCall(p)
        /\ Len(log[p]) = 3
        /\ Ref(log[p][1]) = msg_id[p]
        /\ log[p][1].msg_type = "status"
        /\ log[p][1].content.execution_state = "idle"
        /\ Len(outputs[p]) = 1
        /\ outputs[p][1].output_type = "stream"

\* C7: stream, display_data and execute_result messages for the request (no
\* error message) followed by an execute_reply without error status give
\* status ok, no Error Detail and one record per message in arrival order.
C7_CleanRun ==
    \A p \in Procs :
        RepliedCall(p) /\ ErrorsOf(p) = <<>>
                       /\ ReplyOf(p).content.status # "error"
            => /\ status[p] = "ok"
               /\ error[p] = None
               /\ Len(outputs[p])
                      = Len(Bearing(log[p], msg_id[p],
                              {"stream", "display_data", "execute_result"}))
               /\ \A i \in 1..Len(outputs[p]) :
                      outputs[p][i]
                          = RecordOf(Bearing(log[p], msg_id[p],
                              {"stream", "display_data", "execute_result"})[i])

\* A call that returned ok after one stream message and an ok execute_reply.
C7_Witness ==
    \E p \in Procs :
        /\ RepliedCall(p)
        /\ Len(log[p]) = 2
        /\ log[p][1].msg_type = "stream"
        /\ status[p] = "ok"
        /\ Len(outputs[p]) = 1

\* C8: a call that has sent its request returns an outcome whose status is
\* ok, error or timeout, whatever arrives and even if nothing arrives.
C8_CallReturns ==
    \A p \in Procs :
        (pc[p] = "recv")
            ~> (pc[p] = "done" /\ status[p] \in {"ok", "error", "timeout"})

\* A call that returned with status timeout although every message it
\* consumed answered its own request and none ended the loop.
C8_Witness ==
    \E p \in Procs :
        /\ pc[p] = "done"
        /\ status[p] = "timeout"
        /\ Len(log[p]) = MaxLog
        /\ \A i \in 1..Len(log[p]) : Ref(log[p][i]) = msg_id[p]

\* The WebSockets that are open: the one held, if open, and the orphans.
OpenChans == (IF WsOpen THEN <<ws[1]>> ELSE <<>>) \o orphans

\* C9: with the calls run one at a time the client holds at most one open
\* WebSocket, the one it references; the WebSocket held is closed before a
\* new one is opened; and when _ensure_ws(k) has succeeded the WebSocket
\* held is open and bound to k.
C9_OneOpenChannel ==
    /\ [](/\ Len(OpenChans) <= 1
          /\ orphans = <<>>
          /\ \A p \in Procs :
                pc[p] = "send"
                    => /\ WsOpen
                       /\ ws[1].kernel = kernel_id[p]
                       /\ ws_kernel_id = kernel_id[p])
    /\ [][\A p \in Procs :
            pc[p] = "connect" /\ pc'[p] = "send" => OpenChans = <<>>]_vars

\* A call for a kernel other than the one of the WebSocket held has closed
\* that WebSocket, close() has not been called, and the handshake of the new
\* WebSocket is still to come.
C9_Witness ==
    \E p \in Procs :
        /\ pc[p] = "connect"
        /\ session = "open"
        /\ ws # None
        /\ ws[1].closed
        /\ ws[1].kernel # kernel_id[p]

\* C10: execute_code does not close the WebSocket: from the sending of the
\* request to the return, with any status, the WebSocket held stays the same,
\* open and bound to the kernel of the call, and a call for the kernel of an
\* open WebSocket goes on with that WebSocket without opening another.
C10_ChannelLeftOpen ==
    /\ [](\A p \in Procs :
            pc[p] \in {"recv", "done"}
                => WsOpen /\ ws[1].kernel = kernel_id[p])
    /\ [][\A p \in Procs :
            /\ pc[p] \in {"send", "recv", "done"} /\ pc'[p] # pc[p]
                => ws' = ws /\ orphans' = orphans
            /\ pc[p] = "ensure" /\ pc'[p] # "ensure"
                   /\ WsOpen /\ ws[1].kernel = kernel_id[p]
                => pc'[p] = "send" /\ ws' = ws /\ orphans' = orphans]_vars

\* The first call has returned and a second call has been made for the
\* kernel of the WebSocket that the first call opened and left open.
C10_Witness ==
    \E p \in Procs :
        /\ pc[p] = "ensure"
        /\ nextId = 2
        /\ session = "open"
        /\ WsOpen
        /\ ws[1].kernel = kernel_id[p]

\* The client holds nothing open: no open WebSocket, no open HTTP session.
AllClosed == ~WsOpen /\ session # "open"

\* A step that is a call of close(): no call of execute_code is in progress
\* before or after it.
CloseStep == Quiet /\ pc' = pc

\* C11: close() can be called in every state of the client (nothing ever
\* opened, a WebSocket open, already closed) and does not fail; after a call
\* the WebSocket and the session are closed, a further call changes nothing,
\* and an execute_code that follows goes through the handshake and holds a
\* fresh open WebSocket for its kernel before it sends.
C11_CloseAnyTime ==
    /\ [](Quiet => ENABLED Close)
    /\ [](AllClosed => ~ENABLED (Close /\ vars' # vars))
    /\ [][/\ CloseStep => AllClosed'
          /\ \A p \in Procs :
                /\ (pc[p] = "ensure" /\ ~WsOpen /\ pc'[p] # "ensure")
                       => pc'[p] = "connect"
                /\ (pc[p] = "connect" /\ pc'[p] = "send")
                       => /\ WsOpen'
                          /\ ws'[1].kernel = kernel_id[p]
                          /\ session' = "open"]_vars

\* C11 witness: close() was called on a client that held an open WebSocket,
\* and the execute_code that follows is at the handshake.
C11_Witness ==
    \E p \in Procs :
        /\ pc[p] = "connect"
        /\ session = "closed"
        /\ ws # None
        /\ ws[1].closed

\* C12: a handshake that fails ends the call with the exception: the step
\* out of the handshake is either the success or the raise, never a second
\* attempt; the call that raised has sent no execute_request (no msg_id was
\* taken), holds no open WebSocket and never yields an outcome.
C12_ConnectFailurePropagates ==
    [][\A p \in Procs :
          /\ (pc[p] = "connect" /\ pc'[p] # "connect")
                 => \/ pc'[p] = "send"
                    \/ /\ pc'[p] = "raised"
                       /\ nextId' = nextId
                       /\ msg_id'[p] = NoId
                       /\ ws' = ws
                       /\ ~WsOpen'
          /\ pc[p] = "raised"
                 => /\ pc'[p] \in {"raised", "idle"}
                    /\ nextId' = nextId
                    /\ msg_id[p] = NoId
                    /\ outputs[p] = <<>>]_vars

\* C12 witness: after a call that was served, the handshake of the next
\* call failed and the exception is on its way to the caller.
C12_Witness ==
    \E p \in Procs :
        /\ pc[p] = "raised"
        /\ nextId = 2
        /\ ws # None
        /\ ws[1].closed

\* ------------------------------------------------- claims on the tracker
\* The words of the claims, stated on the cells without the tracker's own
\* operators: the kind, the text and the identity of a unit.
UnitKind(c) == IF "cell_type" \in DOMAIN c THEN c.cell_type ELSE "code"

RECURSIVE Glue(_)
Glue(l) ==
    IF Len(l) = 0 THEN ""
    ELSE Glue(SubSeq(l, 1, Len(l) - 1)) \o l[Len(l)]

UnitText(c) ==
    IF "list" \in DOMAIN c.source THEN Glue(c.source.list) ELSE c.source.str

HasId(c) == "id" \in DOMAIN c

SameUnit(c, d) ==
    /\ UnitKind(c) = UnitKind(d)
    /\ UnitText(c) = UnitText(d)
    /\ HasId(c) = HasId(d)
    /\ HasId(c) => c.id = d.id

SameUnits(S, T) ==
    /\ Len(S) = Len(T)
    /\ \A i \in 1..Len(S) : SameUnit(S[i], T[i])

\* The positions of a sequence of cells, and the positions a list names.
Pos(cells) == 0..(Len(cells) - 1)
Range(l) == {l[i] : i \in DOMAIN l}
Ascending(l) == \A i, j \in DOMAIN l : i < j => l[i] < l[j]

\* The last call was a diff against a baseline: Base is the notebook as it
\* was passed to the last snapshot, Curr the one passed to the diff.
Diffed == ret.op = "diff" /\ snapshot_arg # None
Base == snapshot_arg[1].cells
Curr == content.cells
NoLists(d) ==
    /\ d.added_cells = <<>>
    /\ d.removed_cells = <<>>
    /\ d.modified_cells = <<>>

\* All units carry an identity, each a different one.
ExplicitDistinct(cells) ==
    /\ \A i \in 1..Len(cells) : HasId(cells[i])
    /\ \A i, j \in 1..Len(cells) : i # j => cells[i].id # cells[j].id
IdsOf(cells) == {cells[i].id : i \in 1..Len(cells)}

\* C13: a diff on a notebook whose units have the kinds, texts and
\* identities of the snapshot's, in the same order, says changed = false,
\* has empty lists and a current hash equal to the snapshot's hash, whatever
\* was called since the snapshot.
C13_SameContentUnchanged ==
    (Diffed /\ SameUnits(Curr, Base))
        => /\ ~ret.value.changed
           /\ NoLists(ret.value)
           /\ ret.value.snapshot_hash = Some(ret.value.current_hash)

\* C13 witness: the notebook was edited and edited back after the snapshot,
\* and the diff is on the units of the snapshot.
C13_Witness ==
    /\ Diffed
    /\ SameUnits(Curr, Base)
    /\ Len(Curr) = 2
    /\ other # content

\* Positions of the units of Curr whose identity Base does not have, and
\* the rest of Curr.
NewPos == {p \in Pos(Curr) : Curr[p + 1].id \notin IdsOf(Base)}
Kept == SelectSeq(Curr, LAMBDA c : c.id \in IdsOf(Base))
Inserted ==
    /\ ExplicitDistinct(Base)
    /\ ExplicitDistinct(Curr)
    /\ NewPos # {}
    /\ SameUnits(Kept, Base)

\* C14: with distinct explicit identities, a diff on the snapshot's units
\* plus units of new identities, inserted anywhere, says changed = true,
\* lists in added exactly the positions the new units have in the current
\* notebook and leaves removed and modified empty.
C14_AddedAreNewUnits ==
    (Diffed /\ Inserted)
        => /\ ret.value.changed
           /\ Ascending(ret.value.added_cells)
           /\ Range(ret.value.added_cells) = NewPos
           /\ ret.value.removed_cells = <<>>
           /\ ret.value.modified_cells = <<>>

\* C14 witness: a unit of a new identity was inserted in front of the
\* snapshot's units.
C14_Witness ==
    /\ Diffed
    /\ Inserted
    /\ Len(Base) >= 1
    /\ ret.value.added_cells = <<0>>

\* Positions of the units of Base whose identity Curr does not have.
GonePos == {p \in Pos(Base) : Base[p + 1].id \notin IdsOf(Curr)}
Survivors == SelectSeq(Base, LAMBDA c : c.id \in IdsOf(Curr))
Deleted ==
    /\ ExplicitDistinct(Base)
    /\ ExplicitDistinct(Curr)
    /\ GonePos # {}
    /\ SameUnits(Survivors, Curr)

\* C15: with distinct explicit identities, a diff on the snapshot's units
\* less some of them says changed = true, lists in removed exactly the
\* positions the deleted units had in the snapshot and leaves added and
\* modified empty.
C15_RemovedAreDeletedUnits ==
    (Diffed /\ Deleted)
        => /\ ret.value.changed
           /\ Ascending(ret.value.removed_cells)
           /\ Range(ret.value.removed_cells) = GonePos
           /\ ret.value.added_cells = <<>>
           /\ ret.value.modified_cells = <<>>

\* C15 witness: the first unit of the snapshot was deleted and a unit
\* behind it has moved up.
C15_Witness ==
    /\ Diffed
    /\ Deleted
    /\ Len(Curr) >= 1
    /\ ret.value.removed_cells = <<0>>

\* The identity id is carried by exactly one unit of cells.
Once(cells, id) ==
    Cardinality({i \in 1..Len(cells) : HasId(cells[i]) /\ cells[i].id = id})
        = 1

C17_ListsAscendingAndValid ==
    Diffed =>
        /\ Ascending(ret.value.added_cells)
        /\ Ascending(ret.value.removed_cells)
        /\ Ascending(ret.value.modified_cells)
        /\ Range(ret.value.added_cells) \subseteq Pos(Curr)
        /\ Range(ret.value.modified_cells) \subseteq Pos(Curr)
        /\ Range(ret.value.removed_cells) \subseteq Pos(Base)

\* C18: a diff on a tracker that never took a snapshot says changed =
\* false with the no-snapshot summary, empty lists and no snapshot hash,
\* whatever the notebook, and takes no snapshot; has_snapshot is false
\* until take_snapshot is called and true from then on.
C18_DiffWithoutSnapshot ==
    /\ []((ret.op = "diff" /\ snapshot_arg = None)
            => /\ ~ret.value.changed
               /\ ret.value.summary = <<[text |->
                      "No snapshot taken yet. Use snapshot_notebook first."]>>
               /\ NoLists(ret.value)
               /\ ret.value.snapshot_hash = None)
    /\ [](HasSnapshot = (snapshot_arg # None))
    /\ [][HasSnapshot => HasSnapshot']_tracker

\* C18 witness: a diff on a notebook with cells was answered by a tracker
\* without a snapshot.
C18_Witness ==
    /\ ret.op = "diff"
    /\ snapshot_arg = None
    /\ ~HasSnapshot
    /\ Len(Curr) >= 2

\* C19: the tracker holds the notebook as it was passed to the last
\* take_snapshot and the hash of that notebook, whatever the caller did to
\* its notebook since and whatever snapshots were taken before, and diff
\* reports that hash as the snapshot's.
C19_SnapshotIsLastTaken ==
    snapshot_arg # None
        => /\ snapshot = snapshot_arg
           /\ snapshot_hash = Some(HashNotebook(snapshot_arg[1]))
           /\ ret.op = "diff" => ret.value.snapshot_hash = snapshot_hash

\* C19 witness: the caller changed its notebook after the snapshot and a
\* diff was taken.
C19_Witness ==
    /\ Diffed
    /\ ~SameUnits(Curr, Base)
    /\ snapshot = snapshot_arg

\* --------------------------------------------- claims on the server tools
\* The text of a reply reports a success; piece stands somewhere in text.
SaysSuccess(text) == text # <<>> /\ Head(text) = "Executed successfully (cell "
Shows(text, piece) ==
    \E k \in 1..(Len(text) - Len(piece) + 1) :
        SubSeq(text, k, k + Len(piece) - 1) = piece

\* C20: when execute_cell or edit_and_run_cell has executed the code, the
\* tool raises nothing and its reply is the report of the result of that
\* execution, whether writing into the notebook went well, failed or was
\* not tried: it reports a success exactly when the status is "ok", shows
\* ename and evalue of the Error Detail otherwise, and is the text made of
\* the result for some cell index.
C20_WriteBackFailureSwallowed ==
    result # None
        => /\ ~reply.raised
           /\ SaysSuccess(reply.text) = (result[1].status = "ok")
           /\ result[1].status # "ok"
                  => Shows(reply.text,
                           <<result[1].error[1].ename, ":", " ">>
                               \o result[1].error[1].evalue)
           /\ \E i \in Indexes :
                  reply.text = FormatExecutionResult(result[1], i)

\* C20 witness: edit_and_run_cell ran code that failed, and writing the
\* outputs into the notebook failed after it.
C20_Witness ==
    /\ reply.tool = "edit_and_run_cell"
    /\ writeback = "failed"
    /\ result # None
    /\ result[1].status = "error"

\* The tool step reports to its caller that position i is outside the
\* notebook, and leaves the notebook as it was.
RangeFailure(i) ==
    /\ ~reply'.raised
    /\ reply'.text = RangeMessage(stored, i)
    /\ ~SaysSuccess(reply'.text)
    /\ stored' = stored

\* A notebook is open on a kernel, and position i is outside it.
BeyondNotebook(i) ==
    /\ srv_client
    /\ srv_kernel_id # None
    /\ notebook_path # None
    /\ OutOfRange(stored, i)

\* C21: with a notebook open and no helper failing, every call of edit_cell,
\* edit_and_run_cell, get_cell_output, and of execute_cell with
\* cell_index >= 0 and add_to_notebook, whose cell_index is outside the
\* notebook replies with the out-of-range message, which is not the report
\* of an execution, and leaves the notebook unmodified.
C21_OutOfRangeReported ==
    [][\A i \in Indexes :
        BeyondNotebook(i) =>
            /\ (\E src \in Codes : EditCell(i, src, "ok")) => RangeFailure(i)
            /\ GetCellOutput(i, "ok") => RangeFailure(i)
            /\ (\E src \in Codes, exec \in Executions :
                    EditAndRunCell(i, src, exec, <<"ok", "ok">>))
                   => RangeFailure(i)
            /\ (/\ i >= 0
                /\ \E src \in Codes, exec \in Executions \ {None} :
                    ExecuteCell(src, TRUE, i, exec, <<"ok", "ok">>))
                   => RangeFailure(i)]_state

\* The step with which edit_and_run_cell returns after it has edited the
\* cell, run the code and saved the outputs.
ReturnsSaved ==
    /\ flight.at = "update_save"
    /\ flight' = Idle
    /\ writeback' = "ok"

\* C22: when edit_and_run_cell(i, src) returns after a successful edit and
\* write-back, the cell at position i of the stored notebook has source src
\* and the outputs of that execution, and the write-back has changed nothing
\* else of the notebook as it was stored at that moment, so that no change
\* of another writer is lost or lands on another cell.
C22_EditAndRunAtomic ==
    [][ReturnsSaved =>
        LET i == flight.cell_index
        IN  /\ ~OutOfRange(stored', i)
            /\ stored'[i + 1].source = flight.new_source
            /\ "outputs" \in DOMAIN stored'[i + 1]
            /\ stored'[i + 1].outputs = flight.result[1].outputs
            /\ Len(stored') = Len(stored)
            /\ \A j \in 1..Len(stored) :
                   j # i + 1 => stored'[j] = stored[j]]_state

\* A text of white space only; the text has the section headed "Output:".
Blank(text) == \A k \in 1..Len(text) : text[k] \in Whitespace
HasOutputSection(text) == \E k \in 1..Len(text) : text[k] = "\n\nOutput:\n"

\* C23: the text made of a result whose status is "ok" and whose outputs
\* are empty or render to white space only is the success message alone,
\* without a section "Output:"; the section is there exactly when the status
\* is "ok" and the rendered outputs are not blank; and a call that only
\* formats (execute_cell that writes nothing into the notebook) replies
\* with the text of the result execute_code returned and changes nothing
\* of the notebook, the globals, the client or the tracker.
C23_OutputSectionIffNonBlank ==
    /\ [](result # None =>
            LET res == result[1]
                rendered == FormatOutputs(res.outputs)
            IN  /\ HasOutputSection(reply.text)
                     <=> (res.status = "ok" /\ ~Blank(rendered))
                /\ (res.status = "ok" /\ Blank(rendered))
                     => /\ SaysSuccess(reply.text)
                        /\ Len(reply.text) = 3)
    /\ [][(reply'.tool = "execute_cell" /\ result' # None
                /\ writeback' = "none")
            => /\ reply'.text = FormatExecutionResult(result'[1], -1)
               /\ UNCHANGED <<stored, srv_client, srv_kernel_id,
                              notebook_path, flight, jclient, tracker>>]_state

\* C23 witness: the code printed white space only, and the reply is the
\* success message without a section "Output:".
C23_Witness ==
    /\ result # None
    /\ result[1].status = "ok"
    /\ result[1].outputs # <<>>
    /\ Blank(FormatOutputs(result[1].outputs))
    /\ SaysSuccess(reply.text)
    /\ ~HasOutputSection(reply.text)

\* ------------------------------- claims on calls that share the WebSocket
\* The call of p has taken out of the WebSocket a message that bears the
\* msg_id of the call of q, which has not returned yet.
TookFrom(p, q, kinds) ==
    /\ p # q
    /\ msg_id[q] # NoId
    /\ Bearing(log[p], msg_id[q], kinds) # <<>>

\* At most one call is in progress.
Serial == Cardinality({p \in Procs : pc[p] # "idle"}) <= 1

\* No call has taken a message that answers another call in progress.
NoLoss ==
    \A p, q \in Procs :
        ~TookFrom(p, q, OutputKinds \cup {"execute_reply", "status"})

Reordered ==
    /\ ExplicitDistinct(Base)
    /\ ExplicitDistinct(Curr)
    /\ Len(Curr) = Len(Base)
    /\ \A i \in 1..Len(Base) : \E j \in 1..Len(Curr) :
           SameUnit(Base[i], Curr[j])
    /\ ~SameUnits(Curr, Base)

MetadataOnly(d) == d.summary = <<[text |-> "Metadata changes only."]>>
HashesDiffer(d) == d.snapshot_hash # Some(d.current_hash)

\* C25: a diff on the snapshot's units in another order (distinct explicit
\* identities, kinds and texts as they were) says changed = true, has three
\* empty lists and the summary "Metadata changes only."; and a diff against
\* a snapshot has that summary exactly when the hashes differ and the three
\* lists are empty.
C25_ReorderIsMetadataOnly ==
    Diffed =>
        /\ Reordered => /\ ret.value.changed
                        /\ NoLists(ret.value)
                        /\ MetadataOnly(ret.value)
        /\ MetadataOnly(ret.value)
               <=> (HashesDiffer(ret.value) /\ NoLists(ret.value))

\* C25 witness: the two units of the snapshot have changed places, and the
\* diff says so with the metadata-only summary.
C25_Witness ==
    /\ Diffed
    /\ Reordered
    /\ Len(Base) = 2
    /\ SameUnit(Base[1], Curr[2])
    /\ MetadataOnly(ret.value)
    /\ ret.value.changed

\* No unit of cells carries an identity; cells without the unit at d.
IdLess(cells) == \A i \in 1..Len(cells) : ~HasId(cells[i])
Without(cells, d) == SubSeq(cells, 1, d) \o SubSeq(cells, d + 2, Len(cells))

\* C26: units without an identity are matched by position.  When the units
\* at position p of the snapshot and of the current notebook both lack an
\* identity and differ in text, p is in modified and in neither added nor
\* removed.  When no unit carries an identity and the current notebook is
\* the snapshot without a unit that is not its last, removed holds the last
\* position of the snapshot alone, added is empty and modified holds the
\* positions from the deleted one on whose text is not the text the
\* snapshot has there.
C26_IdLessUnitsMatchByPosition ==
    Diffed =>
        /\ \A p \in Pos(Base) \cap Pos(Curr) :
               (/\ ~HasId(Base[p + 1])
                /\ ~HasId(Curr[p + 1])
                /\ UnitText(Base[p + 1]) # UnitText(Curr[p + 1]))
                   => /\ p \in Range(ret.value.modified_cells)
                      /\ p \notin Range(ret.value.added_cells)
                      /\ p \notin Range(ret.value.removed_cells)
        /\ \A d \in Pos(Base) :
               (IdLess(Base) /\ d < Len(Base) - 1 /\ Curr = Without(Base, d))
                   => /\ ret.value.removed_cells = <<Len(Base) - 1>>
                      /\ ret.value.added_cells = <<>>
                      /\ Range(ret.value.modified_cells)
                           = {p \in Pos(Curr) :
                                 /\ p >= d
                                 /\ UnitText(Curr[p + 1])
                                        # UnitText(Base[p + 1])}

\* C26 witness: the middle one of three units without identity was deleted;
\* the diff reports the unit that moved up as modified and the last
\* position of the snapshot as removed.
C26_Witness ==
    /\ Diffed
    /\ IdLess(Base)
    /\ Len(Base) = 3
    /\ Curr = Without(Base, 1)
    /\ UnitText(Base[2]) # UnitText(Base[3])
    /\ ret.value.modified_cells = <<1>>
    /\ ret.value.removed_cells = <<2>>
    /\ ret.value.added_cells = <<>>

\* ------------------------------------ a further claim on the sequential calls
\* The message reports a failure of request id: an error message, or an
\* execute_reply with error status.
ReportsFailure(m, id) ==
    /\ Ref(m) = id
    /\ \/ m.msg_type = "error"
       \/ /\ m.msg_type = "execute_reply"
          /\ "status" \in DOMAIN m.content
          /\ m.content.status = "error"

\* C27: in the outcome a call returns, the status is "ok" exactly when the
\* Error Detail is null, and a status "error" means that an error message
\* or an execute_reply with error status bearing the call's msg_id was
\* received; and when the status is "error", an execute_reply bearing the
\* msg_id whose status is not "error" leaves status and Error Detail as
\* they are.
C27_StatusAndErrorDetail ==
    /\ [](\A p \in Procs :
            pc[p] = "done"
                => /\ (status[p] = "ok") <=> (error[p] = None)
                   /\ status[p] = "error"
                          => \E k \in 1..Len(log[p]) :
                                 ReportsFailure(log[p][k], msg_id[p]))
    /\ [][\A p \in Procs :
            LET m == log'[p][Len(log'[p])]
            IN  (/\ Consumed(p)
                 /\ status[p] = "error"
                 /\ Ref(m) = msg_id[p]
                 /\ m.msg_type = "execute_reply"
                 /\ ~ReportsFailure(m, msg_id[p]))
                    => /\ status'[p] = "error"
                       /\ error'[p] = error[p]
                       /\ pc'[p] = "done"]_vars

\* C27 witness: a call has received an error message and then an
\* execute_reply with status "ok", and returns status "error" with the
\* Error Detail of the error message.
C27_Witness ==
    \E p \in Procs :
        /\ pc[p] = "done"
        /\ status[p] = "error"
        /\ error[p] # None
        /\ Len(log[p]) >= 2
        /\ log[p][Len(log[p])].msg_type = "execute_reply"
        /\ Ref(log[p][Len(log[p])]) = msg_id[p]
        /\ log[p][Len(log[p])].content.status = "ok"

\* No position stands twice in the list.
NoRepeat(l) == \A i, j \in DOMAIN l : i # j => l[i] # l[j]

\* The unit at position p of Curr and the unit at position q of Base have
\* the same key: the same identity, which no other unit of either notebook
\* carries, or, both lacking one, the same position.
Matched(p, q) ==
    IF HasId(Curr[p + 1]) /\ HasId(Base[q + 1])
    THEN /\ Curr[p + 1].id = Base[q + 1].id
         /\ Once(Curr, Curr[p + 1].id)
         /\ Once(Base, Curr[p + 1].id)
    ELSE ~HasId(Curr[p + 1]) /\ ~HasId(Base[q + 1]) /\ p = q

C29_DiffReadsOnly ==
    /\ [][ret'.op = "diff"
            => /\ snapshot' = snapshot
               /\ snapshot_hash' = snapshot_hash
               /\ content' = content]_tracker
    /\ [][(ret.op = "diff" /\ ret'.op = "diff") => ret' = ret]_tracker
    /\ [][<<snapshot', snapshot_hash'>> # <<snapshot, snapshot_hash>>
            => ret'.op = "take_snapshot"]_tracker

\* C29 witness: a diff has run on a notebook that differs from the
\* snapshot, and the snapshot and its hash are still those of the notebook
\* that was passed to take_snapshot.
C29_Witness ==
    /\ Diffed
    /\ ret.value.changed
    /\ content # snapshot_arg[1]
    /\ snapshot = snapshot_arg
    /\ snapshot_hash = Some(HashNotebook(snapshot_arg[1]))
    /\ ret.value.snapshot_hash = snapshot_hash

\* ------------------------------------------- a claim on overlapping calls
\* C30: with calls that overlap inside _ensure_ws, every WebSocket that was
\* opened and not closed is the one the client references (none is left
\* open and unreferenced), and the recorded kernel id is the kernel the
\* referenced WebSocket was opened for.
C30_NoOrphanUnderOverlap ==
    /\ orphans = <<>>
    /\ ws # None => ws_kernel_id = ws[1].kernel

====
